---- MODULE Spec2Model ----
(***************************************************************************)
(* Configuration compilation and hot reload of prometheus-dingtalk-hook:   *)
(* the config validator, the template compiler, the runtime Build, the     *)
(* atomic Store, the reload Manager with its poller, and the HTTP handlers *)
(* that read the served snapshot or trigger reloads.                       *)
(*                                                                         *)
(* Strings that the code trims or pattern-matches are tuples of one-       *)
(* character strings, so that strings.TrimSpace and the template-name      *)
(* pattern are computed and not assumed.                                   *)
(***************************************************************************)
EXTENDS Integers, Sequences, FiniteSets, TLC

(***************************************************************************)
(* Bounds of the model.                                                    *)
(***************************************************************************)
MaxEvents == 2        \* external events (file writes, requests, ticks) in Spec
MaxEventsReload == 3  \* the same in SpecReload
MaxEventsPoller == 3  \* the same in SpecPoller
MaxEventsServe == 3   \* the same in SpecServe

(***************************************************************************)
(* Strings.                                                                *)
(***************************************************************************)
Space == {" ", "\t", "\n"}

RECURSIVE TrimLeft(_)
TrimLeft(s) ==
    IF s # <<>> /\ Head(s) \in Space THEN TrimLeft(Tail(s)) ELSE s

RECURSIVE TrimRight(_)
TrimRight(s) ==
    IF s # <<>> /\ s[Len(s)] \in Space
    THEN TrimRight(SubSeq(s, 1, Len(s) - 1))
    ELSE s

TrimSpace(s) == TrimRight(TrimLeft(s))

AlnumChars ==
    {"a","b","c","d","e","f","g","h","i","j","k","l","m",
     "n","o","p","q","r","s","t","u","v","w","x","y","z",
     "A","B","C","D","E","F","G","H","I","J","K","L","M",
     "N","O","P","Q","R","S","T","U","V","W","X","Y","Z",
     "0","1","2","3","4","5","6","7","8","9"}

TemplateNameMaxTail == 127

ValidTemplateName(name) ==
    /\ Len(name) >= 1
    /\ Len(name) - 1 <= TemplateNameMaxTail
    /\ name[1] \in AlnumChars
    /\ \A i \in 2..Len(name) : name[i] \in AlnumChars \cup {".", "_", "-"}

s_empty == <<>>
s_default == <<"d","e","f","a","u","l","t">>
s_ops == <<"o","p","s">>
s_nochan == <<"n","o","c","h","a","n">>
s_r1 == <<"r","1">>
s_r1pad == <<" ","r","1">>
s_custom == <<"c","u","s","t","o","m">>
s_templates == <<"t","e","m","p","l","a","t","e","s">>
s_markdown == <<"m","a","r","k","d","o","w","n">>
s_text == <<"t","e","x","t">>
s_hook == <<"h","t","t","p",":","/","/","x">>
s_a == <<"a">>
s_b == <<"b">>
s_route == <<"t","o","-","o","p","s">>

(***************************************************************************)
(* Configuration documents: the bytes a config file can hold.  yaml=FALSE  *)
(* is a document that yaml.Unmarshal rejects.                              *)
(***************************************************************************)
RobotCfg(n, w, t) == [Name |-> n, Webhook |-> w, MsgType |-> t]
ChannelCfg(n, rs, t) == [Name |-> n, Robots |-> rs, Template |-> t]
RouteCfg(n, rc, chs) == [Name |-> n, Receiver |-> rc, Channels |-> chs]

\* a hex digest of sha256.Size*2 characters and a base64 salt
Sha256HexLen == 64   \* sha256.Size*2
s_hexA == [ i \in 1..Sha256HexLen |-> "a" ]
s_hexB == [ i \in 1..Sha256HexLen |-> "b" ]
s_salt == <<"c","2","F","s">>

DocBase ==
    [yaml |-> TRUE, Token |-> s_a, ReloadEnabled |-> TRUE,
     AdminEnabled |-> TRUE, AdminUser |-> s_a, AdminPass |-> s_b,
     TemplateDir |-> s_templates,
     Robots |-> << RobotCfg(s_r1, s_hook, s_text) >>,
     Channels |-> << ChannelCfg(s_default, <<s_r1>>, s_empty) >>,
     Routes |-> << >>]

Docs ==
    << \* 1: valid, token "a", only the default channel
       DocBase,
       \* 2: valid, token "b", channel "ops" bound to template "custom"
       [DocBase EXCEPT !.Token = s_b,
            !.Robots = << RobotCfg(s_r1, s_hook, s_empty) >>,
            !.Channels = << ChannelCfg(s_default, <<s_r1>>, s_empty),
                            ChannelCfg(s_ops, <<s_r1>>, s_custom) >>,
            !.Routes = << RouteCfg(s_route, <<s_ops>>, <<s_ops>>) >>],
       \* 3: not YAML
       [DocBase EXCEPT !.yaml = FALSE],
       \* 4: no channel named "default"
       [DocBase EXCEPT !.Channels = << ChannelCfg(s_ops, <<s_r1>>, s_empty) >>],
       \* 5: a route names a channel that is not declared
       [DocBase EXCEPT !.Routes = << RouteCfg(s_route, <<>>, <<s_nochan>>) >>],
       \* 6: robot declared as " r1", referenced as "r1"
       [DocBase EXCEPT !.Robots = << RobotCfg(s_r1pad, s_hook, s_text) >>],
       \* 7: valid, token "b", no template directory, no polling, no admin
       [DocBase EXCEPT !.Token = s_b, !.TemplateDir = s_empty,
            !.ReloadEnabled = FALSE, !.AdminEnabled = FALSE],
       \* 8: the empty file
       [DocBase EXCEPT !.Token = s_empty, !.ReloadEnabled = FALSE,
            !.AdminEnabled = FALSE, !.TemplateDir = s_empty,
            !.Robots = << >>, !.Channels = << >>],
       \* 9: valid, the token is blank
       [DocBase EXCEPT !.Token = << " " >>],
       \* 10: valid, a route to the channels "ops" (two robots) and "default"
       [DocBase EXCEPT
            !.Robots = << RobotCfg(s_r1, s_hook, s_text),
                          RobotCfg(<< "r", "2" >>, s_hook, s_empty) >>,
            !.Channels = << ChannelCfg(s_default, <<s_r1>>, s_empty),
                            ChannelCfg(s_ops, << s_r1, << "r", "2" >> >>, s_custom) >>,
            !.Routes = << RouteCfg(s_route, <<s_ops>>, << s_ops, s_default >>) >>],
       \* 11: valid, the admin password is given as password_sha256 and salt
       [PasswordSHA256 |-> s_hexA, Salt |-> s_salt]
            @@ [DocBase EXCEPT !.Token = s_b, !.AdminPass = s_empty]
    >>

\* the documents the file may hold at startup
DocIds == 1..8

(***************************************************************************)
(* internal/config: applyDefaults, validate, Parse, Load.                  *)
(* An error is a non-empty string, nil is "".                              *)
(***************************************************************************)
applyDefaults(cfg) ==
    [cfg EXCEPT !.Robots =
        [i \in 1..Len(cfg.Robots) |->
            IF cfg.Robots[i].MsgType = s_empty
            THEN [cfg.Robots[i] EXCEPT !.MsgType = s_markdown]
            ELSE cfg.Robots[i]]]

RECURSIVE validateRobots(_, _, _)
validateRobots(robots, i, robotNames) ==
    IF i > Len(robots) THEN [err |-> "", names |-> robotNames]
    ELSE LET robot == robots[i]
             name == TrimSpace(robot.Name)
         IN  IF name = s_empty
             THEN [err |-> "dingtalk.robots[].name must not be empty", names |-> robotNames]
             ELSE IF name \in robotNames
             THEN [err |-> "dingtalk.robots has duplicate name", names |-> robotNames]
             ELSE IF TrimSpace(robot.Webhook) = s_empty
             THEN [err |-> "dingtalk.robots[].webhook must not be empty", names |-> robotNames]
             ELSE IF TrimSpace(robot.MsgType) \notin {s_markdown, s_text}
             THEN [err |-> "dingtalk.robots[].msg_type must be markdown or text", names |-> robotNames]
             ELSE validateRobots(robots, i + 1, robotNames \cup {name})

RECURSIVE validateChannels(_, _, _, _)
validateChannels(channels, i, robotNames, channelNames) ==
    IF i > Len(channels) THEN [err |-> "", names |-> channelNames]
    ELSE LET ch == channels[i]
             name == TrimSpace(ch.Name)
         IN  IF name = s_empty
             THEN [err |-> "dingtalk.channels[].name must not be empty", names |-> channelNames]
             ELSE IF name \in channelNames
             THEN [err |-> "dingtalk.channels has duplicate name", names |-> channelNames]
             ELSE IF Len(ch.Robots) = 0
             THEN [err |-> "dingtalk.channels[].robots must not be empty", names |-> channelNames]
             ELSE IF \E k \in 1..Len(ch.Robots) : ch.Robots[k] \notin robotNames
             THEN [err |-> "dingtalk.channels[] references unknown robot", names |-> channelNames]
             ELSE validateChannels(channels, i + 1, robotNames, channelNames \cup {name})

RECURSIVE validateRoutes(_, _, _)
validateRoutes(routes, i, channelNames) ==
    IF i > Len(routes) THEN ""
    ELSE LET route == routes[i]
         IN  IF TrimSpace(route.Name) = s_empty
             THEN "dingtalk.routes[].name must not be empty"
             ELSE IF Len(route.Channels) = 0
             THEN "dingtalk.routes[].channels must not be empty"
             ELSE IF \E k \in 1..Len(route.Channels) : route.Channels[k] \notin channelNames
             THEN "dingtalk.routes[] references unknown channel"
             ELSE validateRoutes(routes, i + 1, channelNames)

\* if _, ok := channelNames["default"]; !ok
HasDefaultChannelAlways(channelNames) == TRUE
HasDefaultChannel(channelNames) == s_default \in channelNames

\* cfg.Admin.BasicAuth.PasswordSHA256 and Salt; a document that does not
\* give them leaves them empty
PasswordSHA256Of(cfg) == IF "PasswordSHA256" \in DOMAIN cfg THEN cfg.PasswordSHA256 ELSE s_empty
SaltOf(cfg) == IF "Salt" \in DOMAIN cfg THEN cfg.Salt ELSE s_empty

validate(cfg) ==
    IF cfg.AdminEnabled /\ TrimSpace(cfg.AdminUser) = s_empty
    THEN "admin.basic_auth.username must not be empty"
    ELSE IF cfg.AdminEnabled /\ TrimSpace(cfg.AdminPass) = s_empty
                            /\ TrimSpace(PasswordSHA256Of(cfg)) = s_empty
    THEN "admin.basic_auth.password or admin.basic_auth.password_sha256 is required"
    ELSE IF cfg.AdminEnabled /\ TrimSpace(cfg.AdminPass) # s_empty
                            /\ TrimSpace(PasswordSHA256Of(cfg)) # s_empty
    THEN "admin.basic_auth.password and admin.basic_auth.password_sha256 are mutually exclusive"
    ELSE IF cfg.AdminEnabled /\ TrimSpace(PasswordSHA256Of(cfg)) # s_empty
                            /\ TrimSpace(SaltOf(cfg)) = s_empty
    THEN "admin.basic_auth.salt is required when password_sha256 is set"
    ELSE IF Len(cfg.Robots) = 0
    THEN "dingtalk.robots must not be empty"
    ELSE LET rv == validateRobots(cfg.Robots, 1, {})
         IN  IF rv.err # "" THEN rv.err
             ELSE IF Len(cfg.Channels) = 0
             THEN "dingtalk.channels must not be empty"
             ELSE LET cv == validateChannels(cfg.Channels, 1, rv.names, {})
                  IN  IF cv.err # "" THEN cv.err
                      ELSE IF ~HasDefaultChannel(cv.names)
                      THEN "dingtalk.channels.default is required"
                      ELSE validateRoutes(cfg.Routes, 1, cv.names)

Parse(data) ==
    IF ~data.yaml THEN [err |-> "parse yaml", cfg |-> data]
    ELSE LET cfg == applyDefaults(data)
         IN  [err |-> validate(cfg), cfg |-> cfg]

NoFile == [exists |-> FALSE, doc |-> 1, ver |-> 0]

Load(file) ==
    IF ~file.exists THEN [err |-> "read config", cfg |-> Docs[1]]
    ELSE Parse(Docs[file.doc])

RECURSIVE RobotsByNameFrom(_, _, _)
RobotsByNameFrom(robots, i, out) ==
    IF i > Len(robots) THEN out
    ELSE RobotsByNameFrom(robots, i + 1,
            [n \in DOMAIN out \cup {robots[i].Name} |->
                IF n = robots[i].Name THEN robots[i] ELSE out[n]])

RobotsByName(cfg) == RobotsByNameFrom(cfg.Robots, 1, << >>)

(***************************************************************************)
(* internal/template: NewRenderer over the template directory.  The        *)
(* directory holds *.tmpl files named by their base name; a file is either *)
(* parseable template text (good) or not.                                  *)
(***************************************************************************)
TplBases == {s_custom}

NewRenderer(dirName, dir) ==
    IF TrimSpace(dirName) = s_empty \/ dir.state = "missing"
    THEN [err |-> "", templates |-> {s_default}]
    ELSE IF dir.state = "denied"
    THEN [err |-> "read template dir", templates |-> {}]
    ELSE LET loaded == {b \in TplBases : dir.files[b].present /\ ValidTemplateName(b)}
         IN  IF \E b \in loaded : ~dir.files[b].good
             THEN [err |-> "parse template", templates |-> {}]
             ELSE [err |-> "", templates |-> {s_default} \cup loaded]

HasTemplate(renderer, name) == name \in renderer.templates

(***************************************************************************)
(* internal/runtime: compileChannels, Build, LoadFromFile.                 *)
(***************************************************************************)
RECURSIVE compileChannelsFrom(_, _, _, _)
compileChannelsFrom(robots, channelsCfg, i, out) ==
    IF i > Len(channelsCfg) THEN [err |-> "", channels |-> out]
    ELSE LET ch == channelsCfg[i]
             name == TrimSpace(ch.Name)
             tplName == IF TrimSpace(ch.Template) = s_empty
                        THEN s_default ELSE TrimSpace(ch.Template)
         IN  IF name = s_empty
             THEN [err |-> "channel name is empty", channels |-> out]
             ELSE IF ~ValidTemplateName(tplName)
             THEN [err |-> "channel has invalid template name", channels |-> out]
             ELSE IF \E k \in 1..Len(ch.Robots) : ch.Robots[k] \notin DOMAIN robots
             THEN [err |-> "channel references unknown robot", channels |-> out]
             ELSE compileChannelsFrom(robots, channelsCfg, i + 1,
                    [n \in DOMAIN out \cup {name} |->
                        IF n = name
                        THEN [Name |-> name,
                              Robots |-> [k \in 1..Len(ch.Robots) |-> robots[ch.Robots[k]]],
                              Template |-> tplName]
                        ELSE out[n]])

compileChannels(robots, channelsCfg) ==
    compileChannelsFrom(robots, channelsCfg, 1, << >>)

NoRuntime ==
    [Config |-> Docs[1], Templates |-> {}, Robots |-> << >>,
     Channels |-> << >>, Routes |-> << >>, LoadedAt |-> 0]

BuildNoCrossCheck(cfg, dir, at) ==
    LET renderer == NewRenderer(cfg.TemplateDir, dir)
        robots == RobotsByName(cfg)
        cc == compileChannels(robots, cfg.Channels)
    IN  IF renderer.err # "" THEN [err |-> renderer.err, rt |-> NoRuntime]
        ELSE IF cc.err # "" THEN [err |-> cc.err, rt |-> NoRuntime]
        ELSE IF s_default \notin DOMAIN cc.channels
        THEN [err |-> "default channel is required", rt |-> NoRuntime]
        ELSE [err |-> "",
              rt |-> [Config |-> cfg, Templates |-> renderer.templates,
                      Robots |-> robots, Channels |-> cc.channels,
                      Routes |-> cfg.Routes, LoadedAt |-> at]]

Build(cfg, dir, at) ==
    LET renderer == NewRenderer(cfg.TemplateDir, dir)
        robots == RobotsByName(cfg)
        cc == compileChannels(robots, cfg.Channels)
    IN  IF renderer.err # "" THEN [err |-> renderer.err, rt |-> NoRuntime]
        ELSE IF cc.err # "" THEN [err |-> cc.err, rt |-> NoRuntime]
        ELSE IF \E n \in DOMAIN cc.channels :
                  LET tplName == IF TrimSpace(cc.channels[n].Template) = s_empty
                                 THEN s_default
                                 ELSE TrimSpace(cc.channels[n].Template)
                  IN  ~HasTemplate(renderer, tplName)
        THEN [err |-> "channel references unknown template", rt |-> NoRuntime]
        ELSE IF s_default \notin DOMAIN cc.channels
        THEN [err |-> "default channel is required", rt |-> NoRuntime]
        ELSE [err |-> "",
              rt |-> [Config |-> cfg, Templates |-> renderer.templates,
                      Robots |-> robots, Channels |-> cc.channels,
                      Routes |-> cfg.Routes, LoadedAt |-> at]]

LoadFromFile(file, dir, at) ==
    LET l == Load(file)
    IN  IF l.err # "" THEN [err |-> l.err, rt |-> NoRuntime]
        ELSE Build(l.cfg, dir, at)

(***************************************************************************)
(* State.                                                                  *)
(***************************************************************************)
VARIABLES
    cfgFile,          \* the config file: [exists, doc, ver]; ver is its (size, mtime)
    tplDir,           \* the template directory: [state, files]
    clock,            \* source of modification times
    events,           \* number of external events so far
    now,              \* logical time.Now(): advanced by every successful build
    store,            \* runtime.Store: the served *Runtime
    mu,               \* Manager.mu: "free" or the name of its holder
    lastFingerprint,  \* Manager.lastFingerprint
    lastSuccess,      \* Manager.lastSuccess (0 is the zero time)
    lastError,        \* Manager.lastError ("" is nil)
    enabled,          \* Manager.enabled
    rl,               \* one Manager.Reload call frame per caller
    pollerPc,         \* position of the goroutine of Manager.Start
    pollerFP,         \* fp local of ReloadIfChanged
    ctxDone,          \* ctx.Done() is closed
    tickPending,      \* a tick waits in ticker.C
    tickerStopped,    \* ticker.Stop() has run
    alert,            \* the frame of one handleAlert request
    status,           \* the frame of one Manager.Status call
    admin,            \* the frame of one admin request
    http,             \* the frame of one request to /-/reload
    pure              \* inputs and result of a function applied on its own

vars == << cfgFile, tplDir, clock, events, now, store, mu, lastFingerprint,
           lastSuccess, lastError, enabled, rl, pollerPc, pollerFP, ctxDone,
           tickPending, tickerStopped, alert, status, admin, http, pure >>

fsVars == << cfgFile, tplDir, clock >>
mgrVars == << lastFingerprint, lastSuccess, lastError >>
pollerVars == << pollerPc, pollerFP, ctxDone, tickPending, tickerStopped >>
reqVars == << alert, status, admin >>
\* the variables that only the reload endpoint and the functions applied on
\* their own change
otherVars == << http, pure >>

Reloaders == {"poller", "manual", "admin"}

(***************************************************************************)
(* internal/reload: fingerprint.  sha256 is taken to be injective: the     *)
(* digest is the record of what is written into the hash.                  *)
(***************************************************************************)
NoFingerprint == [file |-> -1, dir |-> "", entries |-> {}]

hashTemplateDir(dir) ==
    IF dir.state = "missing" THEN [err |-> "", dir |-> "missing", entries |-> {}]
    ELSE IF dir.state = "denied" THEN [err |-> "read template dir", dir |-> "", entries |-> {}]
    ELSE [err |-> "", dir |-> "listed",
          entries |-> {<< b, dir.files[b].ver >> : b \in {x \in TplBases : dir.files[x].present}}]

fingerprint(file, dir, rt) ==
    IF ~file.exists THEN [err |-> "stat", fp |-> NoFingerprint]
    ELSE LET tplDirName == TrimSpace(rt.Config.TemplateDir)
         IN  IF tplDirName = s_empty
             THEN [err |-> "", fp |-> [file |-> file.ver, dir |-> "", entries |-> {}]]
             ELSE LET d == hashTemplateDir(dir)
                  IN  IF d.err # "" THEN [err |-> d.err, fp |-> NoFingerprint]
                      ELSE [err |-> "", fp |-> [file |-> file.ver, dir |-> d.dir, entries |-> d.entries]]

fingerprintFromCurrent == fingerprint(cfgFile, tplDir, store)

(***************************************************************************)
(* Init: main() has loaded the config, built the first snapshot, created   *)
(* the Store and the Manager (reload.New records the first fingerprint)    *)
(* and called Manager.Start, which starts the poller only if enabled.      *)
(***************************************************************************)
NoTpl == [present |-> FALSE, good |-> TRUE, ver |-> 0]
GoodTpl == [present |-> TRUE, good |-> TRUE, ver |-> 0]
InitDirs ==
    { [state |-> "present", files |-> [b \in TplBases |-> GoodTpl]] }

\* A Reload call frame.  pc, force, next, nextFP and err are the position, the
\* argument, the locals and the return value; the other fields record the
\* call for the properties: the served snapshot, the write clock and
\* lastSuccess when the call was made, whether it ran LoadFromFile, and the
\* same for the call before it when both are Reload(false) with no write to
\* the files since the first began (streak = 2).
RlIdle ==
    [pc |-> "idle", force |-> FALSE, next |-> NoRuntime, nextFP |-> NoFingerprint,
     err |-> "", before |-> NoRuntime, clock0 |-> 0, success0 |-> 0, loaded |-> FALSE,
     streak |-> 0, prevLoaded |-> FALSE, prevErr |-> ""]

\* the frame of a call Reload(ctx, force) made now by the caller whose last frame is prev
NewCall(prev, force, served, clk, success) ==
    LET cont == ~force /\ prev.pc = "done" /\ ~prev.force /\ prev.clock0 = clk
    IN  [RlIdle EXCEPT !.pc = "lock", !.force = force, !.before = served,
                       !.clock0 = clk, !.success0 = success,
                       !.streak = IF cont THEN 2 ELSE 1,
                       !.prevLoaded = cont /\ prev.loaded,
                       !.prevErr = IF cont THEN prev.err ELSE ""]

AlertIdle == [pc |-> "idle", rt |-> NoRuntime, token |-> s_empty, receiver |-> s_empty,
              channelNames |-> << >>, i |-> 0, failed |-> FALSE, loads |-> 0, seen |-> {},
              duringReload |-> FALSE]

StatusIdle == [pc |-> "idle"]

AdminIdle == [pc |-> "idle", kind |-> "", rt |-> NoRuntime, new |-> 1,
              old |-> NoFile, base |-> s_empty, oldTpl |-> NoTpl, err |-> ""]

\* Manager.Start: if !m.enabled { return }; the goroutine waits in its select
Start(en) == IF en THEN "select" ELSE "off"

InitSystem ==
    /\ \E d \in DocIds, dir \in InitDirs :
        /\ cfgFile = [exists |-> TRUE, doc |-> d, ver |-> 0]
        /\ tplDir = dir
        /\ LoadFromFile(cfgFile, tplDir, 0).err = ""
        /\ store = LoadFromFile(cfgFile, tplDir, 0).rt
    /\ clock = 0
    /\ events = 0
    /\ now = 0
    /\ mu = "free"
    /\ lastFingerprint = fingerprint(cfgFile, tplDir, store).fp
    /\ lastSuccess = 0
    /\ lastError = ""
    /\ enabled = store.Config.ReloadEnabled
    /\ rl = [p \in Reloaders |-> RlIdle]
    /\ pollerPc = Start(enabled)
    /\ pollerFP = NoFingerprint
    /\ ctxDone = FALSE
    /\ tickPending = FALSE
    /\ tickerStopped = FALSE
    /\ alert = AlertIdle
    /\ status = StatusIdle
    /\ admin = AdminIdle

\* no function is being applied on its own
NoPure == [op |-> "none"]

HttpIdle == [pc |-> "idle", method |-> "", code |-> 0, message |-> "", reloads |-> 0]

Init == InitSystem /\ http = HttpIdle /\ pure = NoPure

(***************************************************************************)
(* The environment: writes to the config file and the template directory.  *)
(* lim is the bound on external events of the specification.               *)
(***************************************************************************)
WrittenDocs == {1, 2, 3, 5, 6, 7}

WriteConfig(lim, d) ==
    /\ events < lim
    /\ events' = events + 1
    /\ clock' = clock + 1
    /\ cfgFile' = [exists |-> TRUE, doc |-> d, ver |-> clock']
    /\ UNCHANGED << otherVars, tplDir, now, store, mu, mgrVars, enabled, rl, pollerVars, reqVars >>

RemoveConfig(lim) ==
    /\ events < lim
    /\ cfgFile.exists
    /\ events' = events + 1
    /\ clock' = clock + 1
    /\ cfgFile' = NoFile
    /\ UNCHANGED << otherVars, tplDir, now, store, mu, mgrVars, enabled, rl, pollerVars, reqVars >>

WriteTemplate(lim, b, good) ==
    /\ events < lim
    /\ tplDir.state = "present"
    /\ events' = events + 1
    /\ clock' = clock + 1
    /\ tplDir' = [tplDir EXCEPT !.files[b] = [present |-> TRUE, good |-> good, ver |-> clock']]
    /\ UNCHANGED << otherVars, cfgFile, now, store, mu, mgrVars, enabled, rl, pollerVars, reqVars >>

RemoveTemplate(lim, b) ==
    /\ events < lim
    /\ tplDir.state = "present"
    /\ tplDir.files[b].present
    /\ events' = events + 1
    /\ clock' = clock + 1
    /\ tplDir' = [tplDir EXCEPT !.files[b] = NoTpl]
    /\ UNCHANGED << otherVars, cfgFile, now, store, mu, mgrVars, enabled, rl, pollerVars, reqVars >>

RemoveDir(lim) ==
    /\ events < lim
    /\ tplDir.state # "missing"
    /\ events' = events + 1
    /\ clock' = clock + 1
    /\ tplDir' = [state |-> "missing", files |-> [b \in TplBases |-> NoTpl]]
    /\ UNCHANGED << otherVars, cfgFile, now, store, mu, mgrVars, enabled, rl, pollerVars, reqVars >>

ChmodDir(lim) ==
    /\ events < lim
    /\ tplDir.state # "missing"
    /\ events' = events + 1
    /\ clock' = clock + 1
    /\ tplDir' = [tplDir EXCEPT !.state = IF tplDir.state = "present" THEN "denied" ELSE "present"]
    /\ UNCHANGED << otherVars, cfgFile, now, store, mu, mgrVars, enabled, rl, pollerVars, reqVars >>

Environment(lim) ==
    \/ \E d \in WrittenDocs : WriteConfig(lim, d)
    \/ RemoveConfig(lim)
    \/ \E b \in TplBases, good \in BOOLEAN : WriteTemplate(lim, b, good)
    \/ \E b \in TplBases : RemoveTemplate(lim, b)
    \/ RemoveDir(lim)
    \/ ChmodDir(lim)

(***************************************************************************)
(* Manager.Reload, for the call frame of p.  The statements between        *)
(* m.mu.Lock() and the deferred m.mu.Unlock() are separate actions; the    *)
(* three assignments to lastFingerprint, lastSuccess and lastError, which  *)
(* only code holding m.mu reads, are one action.                           *)
(***************************************************************************)
MutexAlwaysFree(m) == TRUE
MutexFree(m) == m = "free"

\* m.lastError = err on every failing path of Reload
RecordErrorDropped(prev, err) == prev
RecordError(prev, err) == err

\* m.store.Store(next): what the Store holds afterwards
StoredByReloadStale(cur, next) == cur
StoredByReload(cur, next) == next

\* m.lastFingerprint = nextFP
RecordedFingerprintStale(prev, nextFP) == prev
RecordedFingerprint(prev, nextFP) == nextFP

\* m.mu.Lock(); currentFP, err := m.fingerprintFromCurrent(); the unchanged check
R_Enter(p) ==
    /\ rl[p].pc = "lock"
    /\ MutexFree(mu)
    /\ LET r == fingerprintFromCurrent
       IN  IF r.err # ""
           THEN /\ lastError' = RecordError(lastError, r.err)
                /\ rl' = [rl EXCEPT ![p].pc = "unlock", ![p].err = r.err]
           ELSE IF ~rl[p].force /\ r.fp = lastFingerprint
           THEN /\ lastError' = lastError
                /\ rl' = [rl EXCEPT ![p].pc = "unlock", ![p].err = ""]
           ELSE /\ lastError' = lastError
                /\ rl' = [rl EXCEPT ![p].pc = "load"]
    /\ mu' = p
    /\ UNCHANGED << otherVars, fsVars, events, now, store, lastFingerprint, lastSuccess, enabled,
                    pollerVars, reqVars >>

\* m.lastFingerprint when LoadFromFile has failed: the failing path does not
\* assign it (current is the fingerprint of the file that failed)
FingerprintAfterFailureTaken(prev, current) == current
FingerprintAfterFailure(prev, current) == prev

\* next, err := runtime.LoadFromFile(m.logger, m.configPath)
R_Load(p) ==
    /\ rl[p].pc = "load"
    /\ LET r == LoadFromFile(cfgFile, tplDir, now + 1)
       IN  IF r.err # ""
           THEN /\ lastError' = RecordError(lastError, r.err)
                /\ lastFingerprint' = FingerprintAfterFailure(lastFingerprint,
                                                              fingerprintFromCurrent.fp)
                /\ now' = now
                /\ rl' = [rl EXCEPT ![p].pc = "unlock", ![p].err = r.err, ![p].loaded = TRUE]
           ELSE /\ lastError' = lastError
                /\ lastFingerprint' = lastFingerprint
                /\ now' = now + 1
                /\ rl' = [rl EXCEPT ![p].pc = "fp2", ![p].next = r.rt, ![p].loaded = TRUE]
    /\ UNCHANGED << otherVars, fsVars, events, store, mu, lastSuccess, enabled,
                    pollerVars, reqVars >>

\* nextFP, err := fingerprint(m.configPath, next)
R_NextFP(p) ==
    /\ rl[p].pc = "fp2"
    /\ LET r == fingerprint(cfgFile, tplDir, rl[p].next)
       IN  IF r.err # ""
           THEN /\ lastError' = RecordError(lastError, r.err)
                /\ rl' = [rl EXCEPT ![p].pc = "unlock", ![p].err = r.err, ![p].next = NoRuntime]
           ELSE /\ lastError' = lastError
                /\ rl' = [rl EXCEPT ![p].pc = "store", ![p].nextFP = r.fp]
    /\ UNCHANGED << otherVars, fsVars, events, now, store, mu, lastFingerprint, lastSuccess, enabled,
                    pollerVars, reqVars >>

\* m.store.Store(next)
R_Store(p) ==
    /\ rl[p].pc = "store"
    /\ store' = StoredByReload(store, rl[p].next)
    /\ rl' = [rl EXCEPT ![p].pc = "record"]
    /\ UNCHANGED << otherVars, fsVars, events, now, mu, mgrVars, enabled, pollerVars, reqVars >>

\* m.lastFingerprint = nextFP; m.lastSuccess = time.Now(); m.lastError = nil; return nil
R_Record(p) ==
    /\ rl[p].pc = "record"
    /\ lastFingerprint' = RecordedFingerprint(lastFingerprint, rl[p].nextFP)
    /\ lastSuccess' = now
    /\ lastError' = ""
    /\ rl' = [rl EXCEPT ![p].pc = "unlock", ![p].err = "", ![p].next = NoRuntime,
                        ![p].nextFP = NoFingerprint]
    /\ UNCHANGED << otherVars, fsVars, events, now, store, mu, enabled, pollerVars, reqVars >>

\* defer m.mu.Unlock(): Reload returns rl[p].err to its caller; the poller
\* drops the value and goes back to its select
R_Unlock(p) ==
    /\ rl[p].pc = "unlock"
    /\ mu' = "free"
    /\ rl' = [rl EXCEPT ![p].pc = "done"]
    /\ pollerPc' = IF p = "poller" THEN "select" ELSE pollerPc
    /\ UNCHANGED << otherVars, fsVars, events, now, store, mgrVars, enabled, pollerFP, ctxDone,
                    tickPending, tickerStopped, reqVars >>

Reload(p) ==
    \/ R_Enter(p) \/ R_Load(p) \/ R_NextFP(p) \/ R_Store(p) \/ R_Record(p) \/ R_Unlock(p)

(***************************************************************************)
(* Manager.Start: the poller goroutine, and Manager.ReloadIfChanged.       *)
(***************************************************************************)
\* the ticker puts a tick into its channel of capacity one
Tick(lim) ==
    /\ events < lim
    /\ pollerPc \notin {"off", "stopped"}
    /\ ~tickerStopped
    /\ ~tickPending
    /\ events' = events + 1
    /\ tickPending' = TRUE
    /\ UNCHANGED << otherVars, fsVars, now, store, mu, mgrVars, enabled, rl, pollerPc, pollerFP,
                    ctxDone, tickerStopped, reqVars >>

\* the context passed to Start is cancelled
Cancel(lim) ==
    /\ events < lim
    /\ ~ctxDone
    /\ events' = events + 1
    /\ ctxDone' = TRUE
    /\ UNCHANGED << otherVars, fsVars, now, store, mu, mgrVars, enabled, rl, pollerPc,
                    pollerFP, tickPending, tickerStopped, reqVars >>

\* case <-ctx.Done(): return (defer ticker.Stop())
P_SelectDone ==
    /\ pollerPc = "select"
    /\ ctxDone
    /\ pollerPc' = "stopped"
    /\ tickerStopped' = TRUE
    /\ UNCHANGED << otherVars, fsVars, events, now, store, mu, mgrVars, enabled, rl, pollerFP,
                    ctxDone, tickPending, reqVars >>

\* select takes any ready case: a pending tick is ready whatever ctx.Done() is
TickCaseReady(done, pending) == pending
TickCaseReadyUnlessDone(done, pending) == pending /\ ~done

\* case <-ticker.C: _ = m.ReloadIfChanged(ctx)
P_SelectTick ==
    /\ pollerPc = "select"
    /\ TickCaseReady(ctxDone, tickPending)
    /\ tickPending' = FALSE
    /\ pollerPc' = "ric_fp"
    /\ UNCHANGED << otherVars, fsVars, events, now, store, mu, mgrVars, enabled, rl, pollerFP,
                    ctxDone, tickerStopped, reqVars >>

\* ReloadIfChanged: fp, err := m.fingerprintFromCurrent(); if err != nil { return err }
P_RicFingerprint ==
    /\ pollerPc = "ric_fp"
    /\ LET r == fingerprintFromCurrent
       IN  IF r.err # ""
           THEN /\ pollerPc' = "select"
                /\ pollerFP' = NoFingerprint
           ELSE /\ pollerPc' = "ric_cmp"
                /\ pollerFP' = r.fp
    /\ UNCHANGED << otherVars, fsVars, events, now, store, mu, mgrVars, enabled, rl, ctxDone,
                    tickPending, tickerStopped, reqVars >>

\* ReloadIfChanged: unchanged := fp == m.lastFingerprint
FingerprintNeverUnchanged(fp, last) == FALSE
FingerprintUnchanged(fp, last) == fp = last

\* ReloadIfChanged: the comparison under m.mu, then return nil or m.Reload(ctx, false)
P_RicCompare ==
    /\ pollerPc = "ric_cmp"
    /\ MutexFree(mu)
    /\ IF FingerprintUnchanged(pollerFP, lastFingerprint)
       THEN /\ pollerPc' = "select"
            /\ rl' = rl
       ELSE /\ pollerPc' = "reload"
            /\ rl' = [rl EXCEPT !["poller"] = NewCall(rl["poller"], FALSE, store, clock, lastSuccess)]
    /\ pollerFP' = NoFingerprint
    /\ UNCHANGED << otherVars, fsVars, events, now, store, mu, mgrVars, enabled, ctxDone,
                    tickPending, tickerStopped, reqVars >>

Poller(lim) ==
    \/ Tick(lim)
    \/ Cancel(lim)
    \/ P_SelectDone
    \/ P_SelectTick
    \/ P_RicFingerprint
    \/ P_RicCompare

(***************************************************************************)
(* A direct caller of Manager.Reload: the /-/reload endpoint and the admin *)
(* reload handler call Reload(ctx, true), the tests call it with either    *)
(* value of force.                                                         *)
(***************************************************************************)
M_Call(lim, force) ==
    /\ events < lim
    /\ rl["manual"].pc \in {"idle", "done"}
    /\ events' = events + 1
    /\ rl' = [rl EXCEPT !["manual"] = NewCall(rl["manual"], force, store, clock, lastSuccess)]
    /\ UNCHANGED << otherVars, fsVars, now, store, mu, mgrVars, enabled, pollerVars, reqVars >>

(***************************************************************************)
(* runtime.Store, internal/router and the parts of internal/server.        *)
(***************************************************************************)
\* Store.Load never blocks: it needs nothing that a Reload holds
StoreLoadReady(m) == TRUE
StoreLoadUnderManagerLock(m) == m = "free"

\* router.When.Match on the receiver dimension: an empty list matches all
WhenMatch(route, receiver) ==
    \/ Len(route.Receiver) = 0
    \/ \E k \in 1..Len(route.Receiver) : route.Receiver[k] = receiver

RECURSIVE FirstMatchFrom(_, _, _)
FirstMatchFrom(routes, i, receiver) ==
    IF i > Len(routes) THEN << >>
    ELSE IF WhenMatch(routes[i], receiver) THEN routes[i].Channels
    ELSE FirstMatchFrom(routes, i + 1, receiver)

FirstMatch(routes, receiver) == FirstMatchFrom(routes, 1, receiver)

\* Renderer.Render: the name is trimmed, blank means the default template
RenderOK(rt, templateName) ==
    LET name == IF TrimSpace(templateName) = s_empty THEN s_default ELSE TrimSpace(templateName)
    IN  name \in rt.Templates

\* checkToken: a blank expected token admits everything
checkToken(token, expected) ==
    \/ TrimSpace(expected) = s_empty
    \/ TrimSpace(token) = expected

\* a handler that read the Store again at every step
AlertSnapshotReloaded(frame, served) == served
\* the snapshot a step of handleAlert works on: the local rt of line 118
AlertSnapshot(frame, served) == frame.rt

ReqTokens == {s_a, s_b}
Receivers == {s_ops, s_default}

\* a handler that went through the Manager's mutex to get the snapshot
A_RequestUnderManagerLock(lim, token, receiver) ==
    /\ events < lim
    /\ alert.pc = "idle"
    /\ mu = "free"
    /\ events' = events + 1
    /\ alert' = [pc |-> "auth", rt |-> store, token |-> token, receiver |-> receiver,
                 channelNames |-> << >>, i |-> 0, failed |-> FALSE, loads |-> 1,
                 seen |-> {}, duringReload |-> FALSE]
    /\ UNCHANGED << otherVars, fsVars, now, store, mu, mgrVars, enabled, rl, pollerVars, status, admin >>

\* rt := opts.State.Load()
A_Request(lim, token, receiver) ==
    /\ events < lim
    /\ alert.pc = "idle"
    /\ StoreLoadReady(mu)
    /\ events' = events + 1
    /\ alert' = [AlertIdle EXCEPT !.pc = "auth", !.rt = store, !.token = token,
                                  !.receiver = receiver, !.loads = 1,
                                  !.duringReload = (mu \in Reloaders)]
    /\ UNCHANGED << otherVars, fsVars, now, store, mu, mgrVars, enabled, rl, pollerVars, status, admin >>

\* checkToken(r, rt.Config.Auth.Token); reading the body; router.FirstMatch(rt.Routes, msg)
A_Route ==
    /\ alert.pc = "auth"
    /\ LET rt == AlertSnapshot(alert, store)
           names == FirstMatch(rt.Routes, alert.receiver)
       IN  IF ~checkToken(alert.token, rt.Config.Token)
           THEN alert' = AlertIdle
           ELSE alert' = [alert EXCEPT !.pc = "deliver",
                                       !.channelNames = IF Len(names) = 0 THEN << s_default >> ELSE names,
                                       !.i = 1,
                                       !.seen = @ \cup {rt.LoadedAt}]
    /\ UNCHANGED << otherVars, fsVars, events, now, store, mu, mgrVars, enabled, rl, pollerVars, status, admin >>

\* one round of the loop over channelNames: channel lookup, Render,
\* EffectiveMention and rt.DingTalk.Send to each robot of the channel
A_Deliver(sent) ==
    /\ alert.pc = "deliver"
    /\ alert.i <= Len(alert.channelNames)
    /\ LET rt == AlertSnapshot(alert, store)
           channelName == alert.channelNames[alert.i]
           ok == /\ channelName \in DOMAIN rt.Channels
                 /\ RenderOK(rt, rt.Channels[channelName].Template)
                 /\ sent
       IN  alert' = [alert EXCEPT !.i = @ + 1,
                                  !.failed = @ \/ ~ok,
                                  !.seen = @ \cup {rt.LoadedAt}]
    /\ UNCHANGED << otherVars, fsVars, events, now, store, mu, mgrVars, enabled, rl, pollerVars, status, admin >>

\* if len(sendErrs) > 0 { 500 } else { 200 }
A_Respond ==
    /\ alert.pc = "deliver"
    /\ alert.i > Len(alert.channelNames)
    /\ alert' = AlertIdle
    /\ UNCHANGED << otherVars, fsVars, events, now, store, mu, mgrVars, enabled, rl, pollerVars, status, admin >>

Alert(lim) ==
    \/ \E token \in ReqTokens, receiver \in Receivers : A_Request(lim, token, receiver)
    \/ A_Route
    \/ \E sent \in BOOLEAN : A_Deliver(sent)
    \/ A_Respond

(***************************************************************************)
(* Manager.Status.                                                         *)
(***************************************************************************)
S_Call(lim) ==
    /\ events < lim
    /\ status.pc = "idle"
    /\ events' = events + 1
    /\ status' = [pc |-> "lock"]
    /\ UNCHANGED << otherVars, fsVars, now, store, mu, mgrVars, enabled, rl, pollerVars, alert, admin >>

\* m.mu.Lock()
S_Lock ==
    /\ status.pc = "lock"
    /\ MutexFree(mu)
    /\ mu' = "status"
    /\ status' = [pc |-> "read"]
    /\ UNCHANGED << otherVars, fsVars, events, now, store, mgrVars, enabled, rl, pollerVars, alert, admin >>

\* st := Status{...}; defer m.mu.Unlock(); return st
S_Return ==
    /\ status.pc = "read"
    /\ mu' = "free"
    /\ status' = StatusIdle
    /\ UNCHANGED << otherVars, fsVars, events, now, store, mgrVars, enabled, rl, pollerVars, alert, admin >>

Status(lim) == S_Call(lim) \/ S_Lock \/ S_Return

(***************************************************************************)
(* internal/admin: ServeHTTP, handleConfig (PUT) and handleTemplate (PUT). *)
(***************************************************************************)
\* checkBasicAuth with a plaintext password
checkBasicAuth(username, password, cfg) ==
    username = cfg.AdminUser /\ password = cfg.AdminPass

AdminDocs == {2, 3, 7}
Passwords == {s_a, s_b}

\* ServeHTTP: rt := h.store.Load(); 404 unless admin is enabled; 401 unless
\* the credentials match; then the handler of the path
Ad_Request(lim, kind, d, b, password) ==
    /\ events < lim
    /\ admin.pc = "idle"
    /\ StoreLoadReady(mu)
    /\ events' = events + 1
    /\ IF ~store.Config.AdminEnabled \/ ~checkBasicAuth(s_a, password, store.Config)
       THEN admin' = AdminIdle
       ELSE admin' = [AdminIdle EXCEPT !.pc = "validate", !.kind = kind, !.rt = store,
                                       !.new = d, !.base = b]
    /\ UNCHANGED << otherVars, fsVars, now, store, mu, mgrVars, enabled, rl, pollerVars, alert, status >>

\* if _, err := runtime.Build(...): the handler drops the Runtime it built
AdminBuildStored(served, built) == built
AdminBuildEffect(served, built) == served

\* handleConfig PUT: oldData, _ := os.ReadFile; config.Parse; runtime.Build; 400 on error
Ad_CfgValidate ==
    /\ admin.pc = "validate"
    /\ admin.kind = "config"
    /\ LET parsed == Parse(Docs[admin.new])
           built == Build(parsed.cfg, tplDir, now)
       IN  IF parsed.err # "" \/ built.err # ""
           THEN /\ admin' = AdminIdle
                /\ store' = store
           ELSE /\ admin' = [admin EXCEPT !.pc = "write", !.old = cfgFile]
                /\ store' = AdminBuildEffect(store, built.rt)
    /\ UNCHANGED << otherVars, fsVars, events, now, mu, mgrVars, enabled, rl, pollerVars, alert, status >>

\* writeFileAtomic(h.configPath, newData); h.reload.Reload(ctx, true)
Ad_CfgWrite ==
    /\ admin.pc = "write"
    /\ admin.kind = "config"
    /\ clock' = clock + 1
    /\ cfgFile' = [exists |-> TRUE, doc |-> admin.new, ver |-> clock']
    /\ admin' = [admin EXCEPT !.pc = "reload1"]
    /\ rl' = [rl EXCEPT !["admin"] = NewCall(rl["admin"], TRUE, store, clock, lastSuccess)]
    /\ UNCHANGED << otherVars, tplDir, events, now, store, mu, mgrVars, enabled, pollerVars, alert, status >>

\* the empty file, which writeFileAtomic(path, nil) leaves when oldData is nil
EmptyDoc == 8

\* if err := Reload(); err != nil { writeFileAtomic(h.configPath, oldData); Reload() again }
Ad_CfgAfterReload ==
    /\ admin.pc = "reload1"
    /\ admin.kind = "config"
    /\ rl["admin"].pc = "done"
    /\ IF rl["admin"].err = ""
       THEN /\ admin' = AdminIdle
            /\ rl' = [rl EXCEPT !["admin"] = RlIdle]
            /\ UNCHANGED << cfgFile, clock >>
       ELSE /\ clock' = clock + 1
            /\ cfgFile' = [exists |-> TRUE,
                           doc |-> IF admin.old.exists THEN admin.old.doc ELSE EmptyDoc,
                           ver |-> clock']
            /\ admin' = [admin EXCEPT !.pc = "reload2", !.err = rl["admin"].err]
            /\ rl' = [rl EXCEPT !["admin"] = NewCall(rl["admin"], TRUE, store, clock, lastSuccess)]
    /\ UNCHANGED << otherVars, tplDir, events, now, store, mu, mgrVars, enabled, pollerVars, alert, status >>

\* handleTemplate PUT: 409 without template.dir; template.ValidateText; os.MkdirAll;
\* old, oldErr := os.ReadFile(path)
Ad_TplValidate(good) ==
    /\ admin.pc = "validate"
    /\ admin.kind = "template"
    /\ IF TrimSpace(admin.rt.Config.TemplateDir) = s_empty \/ ~good \/ tplDir.state = "denied"
       THEN /\ admin' = AdminIdle
            /\ tplDir' = tplDir
       ELSE /\ tplDir' = [tplDir EXCEPT !.state = "present"]
            /\ admin' = [admin EXCEPT !.pc = "write", !.oldTpl = tplDir.files[admin.base]]
    /\ UNCHANGED << otherVars, cfgFile, clock, events, now, store, mu, mgrVars, enabled, rl, pollerVars,
                    alert, status >>

\* writeFileAtomic(path, data); h.reload.Reload(ctx, true)
Ad_TplWrite ==
    /\ admin.pc = "write"
    /\ admin.kind = "template"
    /\ IF tplDir.state # "present"
       THEN /\ admin' = AdminIdle
            /\ UNCHANGED << tplDir, clock, rl >>
       ELSE /\ clock' = clock + 1
            /\ tplDir' = [tplDir EXCEPT !.files[admin.base] =
                              [present |-> TRUE, good |-> TRUE, ver |-> clock']]
            /\ admin' = [admin EXCEPT !.pc = "reload1"]
            /\ rl' = [rl EXCEPT !["admin"] = NewCall(rl["admin"], TRUE, store, clock, lastSuccess)]
    /\ UNCHANGED << otherVars, cfgFile, events, now, store, mu, mgrVars, enabled, pollerVars, alert, status >>

\* if err := Reload(); err != nil { write old back or os.Remove(path); Reload() again }
Ad_TplAfterReload ==
    /\ admin.pc = "reload1"
    /\ admin.kind = "template"
    /\ rl["admin"].pc = "done"
    /\ IF rl["admin"].err = ""
       THEN /\ admin' = AdminIdle
            /\ rl' = [rl EXCEPT !["admin"] = RlIdle]
            /\ UNCHANGED << tplDir, clock >>
       ELSE /\ clock' = clock + 1
            /\ tplDir' = IF tplDir.state # "present" THEN tplDir
                         ELSE IF admin.oldTpl.present
                         THEN [tplDir EXCEPT !.files[admin.base] =
                                  [admin.oldTpl EXCEPT !.ver = clock']]
                         ELSE [tplDir EXCEPT !.files[admin.base] = NoTpl]
            /\ admin' = [admin EXCEPT !.pc = "reload2", !.err = rl["admin"].err]
            /\ rl' = [rl EXCEPT !["admin"] = NewCall(rl["admin"], TRUE, store, clock, lastSuccess)]
    /\ UNCHANGED << otherVars, cfgFile, events, now, store, mu, mgrVars, enabled, pollerVars, alert, status >>

\* _ = h.reload.Reload(ctx, true); the response carries the first error
Ad_AfterSecondReload ==
    /\ admin.pc = "reload2"
    /\ rl["admin"].pc = "done"
    /\ admin' = AdminIdle
    /\ rl' = [rl EXCEPT !["admin"] = RlIdle]
    /\ UNCHANGED << otherVars, fsVars, events, now, store, mu, mgrVars, enabled, pollerVars, alert, status >>

Admin(lim) ==
    \/ \E d \in AdminDocs, password \in Passwords : Ad_Request(lim, "config", d, s_empty, password)
    \/ \E b \in TplBases, password \in Passwords : Ad_Request(lim, "template", 1, b, password)
    \/ Ad_CfgValidate
    \/ Ad_CfgWrite
    \/ Ad_CfgAfterReload
    \/ \E good \in BOOLEAN : Ad_TplValidate(good)
    \/ Ad_TplWrite
    \/ Ad_TplAfterReload
    \/ Ad_AfterSecondReload

(***************************************************************************)
(* Specifications.                                                         *)
(***************************************************************************)
\* everything: file writes, the poller, direct reloads, alerts, status, admin
Next ==
    \/ Environment(MaxEvents)
    \/ Poller(MaxEvents)
    \/ \E force \in BOOLEAN : M_Call(MaxEvents, force)
    \/ \E p \in Reloaders : Reload(p)
    \/ Alert(MaxEvents)
    \/ Status(MaxEvents)
    \/ Admin(MaxEvents)

Spec == Init /\ [][Next]_vars

\* file writes and direct calls of Manager.Reload
NextReload ==
    \/ Environment(MaxEventsReload)
    \/ \E force \in BOOLEAN : M_Call(MaxEventsReload, force)
    \/ \E p \in Reloaders : Reload(p)

SpecReload == Init /\ [][NextReload]_vars

\* file writes and the poller
NextPoller ==
    \/ Environment(MaxEventsPoller)
    \/ Poller(MaxEventsPoller)
    \/ \E p \in Reloaders : Reload(p)

SpecPoller == Init /\ [][NextPoller]_vars

\* file writes, direct reloads, the poller, alert requests and status calls
NextServe ==
    \/ \E d \in WrittenDocs : WriteConfig(MaxEventsServe, d)
    \/ Poller(MaxEventsServe)
    \/ M_Call(MaxEventsServe, TRUE)
    \/ \E p \in Reloaders : Reload(p)
    \/ Alert(MaxEventsServe)
    \/ Status(MaxEventsServe)

SpecServe == Init /\ [][NextServe]_vars

(***************************************************************************)
(* Properties.                                                             *)
(***************************************************************************)
Critical == {"load", "fp2", "store", "record", "unlock"}

\* C1: when a call of Reload has returned an error, the Store still holds
\* the snapshot it held when the call was made, and lastError is set.
C1_FailedReloadKeepsSnapshot ==
    \A p \in Reloaders :
        (rl[p].pc = "done" /\ rl[p].err # "") => (store = rl[p].before /\ lastError # "")

C1_Witness ==
    /\ rl["manual"].pc = "done"
    /\ rl["manual"].err # ""
    /\ rl["manual"].force
    /\ rl["manual"].loaded

\* C2: the served snapshot always is the complete result of one successful
\* build: it has the channel "default", its routes name only its channels,
\* the robots of its channels are declared robots, the template of every
\* channel is in its template set, and its robots, channels and routes are
\* those compiled from its own Config.
WellFormed(rt) ==
    /\ s_default \in DOMAIN rt.Channels
    /\ \A i \in 1..Len(rt.Routes) : \A k \in 1..Len(rt.Routes[i].Channels) :
            rt.Routes[i].Channels[k] \in DOMAIN rt.Channels
    /\ \A n \in DOMAIN rt.Channels :
            /\ \A k \in 1..Len(rt.Channels[n].Robots) :
                    \E r \in DOMAIN rt.Robots : rt.Robots[r] = rt.Channels[n].Robots[k]
            /\ rt.Channels[n].Template \in rt.Templates
    /\ validate(rt.Config) = ""
    /\ rt.Robots = RobotsByName(rt.Config)
    /\ rt.Channels = compileChannels(rt.Robots, rt.Config.Channels).channels
    /\ rt.Routes = rt.Config.Routes

C2_ServedSnapshotWellFormed == WellFormed(store)

C2_Witness ==
    /\ lastError # ""
    /\ cfgFile.exists
    /\ LoadFromFile(cfgFile, tplDir, 0).err # ""
    /\ \E p \in Reloaders : rl[p].pc = "done" /\ rl[p].loaded

\* C3: when Reload(force=true) has returned nil and the files were not
\* written during the call, the Store holds the snapshot built from the
\* content of the config file, lastError is empty and lastSuccess is later
\* than it was when the call was made.
C3_ForcedReloadServesFile ==
    \A p \in Reloaders :
        (rl[p].pc = "done" /\ rl[p].force /\ rl[p].err = "" /\ rl[p].clock0 = clock)
        => /\ Load(cfgFile).err = ""
           /\ store.Config = Load(cfgFile).cfg
           /\ store = Build(Load(cfgFile).cfg, tplDir, store.LoadedAt).rt
           /\ lastError = ""
           /\ lastSuccess > rl[p].success0

C3_Witness ==
    /\ rl["manual"].pc = "done"
    /\ rl["manual"].force
    /\ rl["manual"].err = ""
    /\ rl["manual"].clock0 = clock
    /\ rl["manual"].before.Config.Token = s_a
    /\ store.Config.Token = s_b

\* C4 as claimed: of two consecutive calls Reload(false) with no write to
\* the files since the first began, at most one runs LoadFromFile.
C4_AtMostOneRebuild ==
    \A p \in Reloaders :
        (rl[p].streak = 2 /\ rl[p].clock0 = clock) => ~(rl[p].prevLoaded /\ rl[p].loaded)

\* C4 as amended: when the first of the two calls returned nil, the second
\* does not run LoadFromFile.
C4_NoRebuildAfterSuccess ==
    \A p \in Reloaders :
        (rl[p].streak = 2 /\ rl[p].clock0 = clock /\ rl[p].prevErr = "") => ~rl[p].loaded

C4_Witness ==
    /\ rl["manual"].streak = 2
    /\ rl["manual"].clock0 = clock
    /\ rl["manual"].prevErr = ""
    /\ rl["manual"].prevLoaded
    /\ rl["manual"].pc = "done"

\* C5: a step changes what the Store holds only if it is the Store.Store
\* statement of a Reload, storing the snapshot that Reload built.
C5_OnlyReloadWritesStore ==
    [][store' # store =>
        \E p \in Reloaders : rl[p].pc = "store" /\ rl'[p].pc = "record" /\ store' = rl[p].next]_vars

C5_Witness ==
    /\ admin.pc = "reload1"
    /\ rl["admin"].pc = "done"
    /\ rl["admin"].err = ""
    /\ store # rl["admin"].before

\* C6: an alert request loads the snapshot once and every step of it works
\* on that snapshot, whatever the Store holds by then.
C6_AlertUsesOneSnapshot ==
    /\ alert.loads <= 1
    /\ alert.pc # "idle" => (alert.loads = 1 /\ alert.seen \subseteq {alert.rt.LoadedAt})

C6_Witness ==
    /\ alert.pc = "deliver"
    /\ alert.i > 1
    /\ store.LoadedAt # alert.rt.LoadedAt

\* C7: at most one caller is between Lock and Unlock of Manager.mu, no
\* Status call reads while a Reload is there, and whenever nobody holds the
\* mutex the bookkeeping is that of a whole Reload: lastSuccess is the time
\* of the build of the served snapshot.
C7_ReloadsSerialized ==
    /\ \A p \in Reloaders : rl[p].pc \in Critical =>
            /\ mu = p
            /\ status.pc # "read"
            /\ \A q \in Reloaders \ {p} : rl[q].pc \notin Critical
    /\ status.pc = "read" => mu = "status"
    /\ (mu = "free" /\ lastSuccess # 0) => store.LoadedAt = lastSuccess
    /\ (mu = "free" /\ lastSuccess = 0) => store.LoadedAt = 0

C7_Witness ==
    /\ rl["manual"].pc = "record"
    /\ store # rl["manual"].before
    /\ status.pc = "lock"

\* C8: while a Reload is between Lock and Unlock, an alert request that
\* arrives can load the snapshot at once, and the Store.Store of a Reload
\* can run whatever the alert request is doing.
C8_LoadNeverWaitsForReload ==
    /\ (mu \in Reloaders /\ alert.pc = "idle" /\ events < MaxEventsServe)
            => ENABLED (\E token \in ReqTokens, receiver \in Receivers :
                            A_Request(MaxEventsServe, token, receiver))
    /\ \A p \in Reloaders : rl[p].pc = "store" => ENABLED R_Store(p)

C8_Witness ==
    /\ alert.duringReload
    /\ alert.pc = "deliver"
    /\ \E p \in Reloaders : rl[p].pc = "load"

\* C9: a step in which ReloadIfChanged returns an error to the poller
\* leaves lastError set, the served snapshot unchanged and the poller back
\* in its select.
RicFailed ==
    \/ pollerPc = "ric_fp" /\ pollerPc' = "select"
    \/ rl["poller"].pc = "unlock" /\ rl'["poller"].pc = "done" /\ rl["poller"].err # ""

C9_TickFailureRecorded ==
    [][RicFailed => (lastError' # "" /\ store' = store /\ pollerPc' = "select")]_vars

\* C10: once ctx.Done() is closed the poller takes no tick from ticker.C.
C10_NoTickAfterCancel ==
    [][ctxDone => ~(pollerPc = "select" /\ pollerPc' = "ric_fp")]_vars

(***************************************************************************)
(* Functions applied on their own.  The system stays at rest under the     *)
(* first config while pure holds the inputs and the result.                *)
(***************************************************************************)
sysVars == << cfgFile, tplDir, clock, events, now, store, mu, lastFingerprint,
              lastSuccess, lastError, enabled, rl, pollerPc, pollerFP, ctxDone,
              tickPending, tickerStopped, alert, status, admin, http >>

AtRest == InitSystem /\ cfgFile.doc = 1 /\ http = HttpIdle

(***************************************************************************)
(* internal/reload: the bytes that fingerprint writes into the hash.       *)
(* sha256 and hex.EncodeToString are taken to be injective, so the digest  *)
(* is the byte sequence itself.                                            *)
(***************************************************************************)
NUL == "NUL"

\* byte values of the characters of the names used
Byte ==
    ("." :> 46) @@ ("/" :> 47) @@ ("a" :> 97) @@ ("b" :> 98) @@ ("c" :> 99) @@
    ("l" :> 108) @@ ("m" :> 109) @@ ("p" :> 112) @@ ("t" :> 116) @@ ("x" :> 120)

\* x < y for Go strings: byte-wise lexicographic
LessString(x, y) ==
    \E i \in 1..(Len(x) + 1) :
        /\ \A j \in 1..(i - 1) : j <= Len(y) /\ x[j] = y[j]
        /\ \/ i = Len(x) + 1 /\ i <= Len(y)
           \/ i <= Len(x) /\ i <= Len(y) /\ Byte[x[i]] < Byte[y[i]]

\* sort.Strings
RECURSIVE SortStrings(_)
SortStrings(S) ==
    IF S = {} THEN << >>
    ELSE LET m == CHOOSE x \in S : \A y \in S \ {x} : LessString(x, y)
         IN  << m >> \o SortStrings(S \ {m})

DigitChar == << "0", "1", "2", "3", "4", "5", "6", "7", "8", "9" >>

\* fmt.Sprintf("%d", n) for n >= 0
RECURSIVE Digits(_)
Digits(n) ==
    IF n < 10 THEN << DigitChar[n + 1] >>
    ELSE Digits(n \div 10) \o << DigitChar[(n % 10) + 1] >>

\* filepath.Ext: the suffix beginning at the last dot
LastDot(name) ==
    IF \E i \in 1..Len(name) : name[i] = "."
    THEN CHOOSE i \in 1..Len(name) :
            name[i] = "." /\ \A j \in (i + 1)..Len(name) : name[j] # "."
    ELSE 0

Ext(name) == IF LastDot(name) = 0 THEN << >> ELSE SubSeq(name, LastDot(name), Len(name))

\* filepath.Join(dir, name)
Join(dir, name) == dir \o << "/" >> \o name

s_filetag == << "f", "i", "l", "e", ":" >>
s_dirtag == << "d", "i", "r", ":" >>
s_missing == << "m", "i", "s", "s", "i", "n", "g" >>
s_dottmpl == << ".", "t", "m", "p", "l" >>

\* fmt.Sprintf("%d:%d", st.Size(), st.ModTime().UnixNano())
FormatStatNoSeparator(size, mtime) == Digits(size) \o Digits(mtime)
FormatStat(size, mtime) == Digits(size) \o << ":" >> \o Digits(mtime)

\* hashFileStat of a file that os.Stat finds
hashFileStatBytes(path, st) ==
    s_filetag \o path \o << NUL >> \o FormatStat(st.size, st.mtime) \o << NUL >>

\* the names hashTemplateDir keeps: not a directory, extension .tmpl
HashedNames(d) ==
    { n \in DOMAIN d.entries :
        d.entries[n].present /\ ~d.entries[n].isDir /\ Ext(n) = s_dottmpl }

RECURSIVE HashNamed(_, _, _)
HashNamed(dirName, d, names) ==
    IF names = << >> THEN << >>
    ELSE hashFileStatBytes(Join(dirName, Head(names)), d.entries[Head(names)])
            \o HashNamed(dirName, d, Tail(names))

hashTemplateDirBytes(dirName, d) ==
    IF d.state = "missing"
    THEN [err |-> "", bytes |-> s_dirtag \o dirName \o << NUL >> \o s_missing \o << NUL >>]
    ELSE IF d.state = "denied"
    THEN [err |-> "read template dir", bytes |-> << >>]
    ELSE [err |-> "",
          bytes |-> s_dirtag \o dirName \o << NUL >>
                        \o HashNamed(dirName, d, SortStrings(HashedNames(d)))]

fingerprintBytes(path, file, dirName, d) ==
    IF ~file.exists THEN [err |-> "stat", bytes |-> << >>]
    ELSE IF TrimSpace(dirName) = s_empty
    THEN [err |-> "", bytes |-> hashFileStatBytes(path, file)]
    ELSE LET t == hashTemplateDirBytes(TrimSpace(dirName), d)
         IN  IF t.err # "" THEN [err |-> t.err, bytes |-> << >>]
             ELSE [err |-> "", bytes |-> hashFileStatBytes(path, file) \o t.bytes]

\* the inputs: two states of one config file and one template directory
FpConfigPath == << "c" >>
FpTemplateDir == << "t" >>
n_a_tmpl == << "a", ".", "t", "m", "p", "l" >>
n_b_tmpl == << "b", ".", "t", "m", "p", "l" >>
n_x_txt == << "x", ".", "t", "x", "t" >>

FpStats == { << 1, 12 >>, << 11, 2 >> }
FpAbsent == [present |-> FALSE, isDir |-> FALSE, size |-> 0, mtime |-> 0, content |-> 0]
FpFile(st, dir, content) ==
    [present |-> TRUE, isDir |-> dir, size |-> st[1], mtime |-> st[2], content |-> content]

FpConfigFiles ==
    { [exists |-> TRUE, size |-> st[1], mtime |-> st[2], content |-> c] :
        st \in FpStats, c \in {1, 2} }

FpDirs ==
    { [state |-> "missing", entries |-> (n_a_tmpl :> FpAbsent) @@ (n_b_tmpl :> FpAbsent)
                                            @@ (n_x_txt :> FpAbsent)],
      [state |-> "denied", entries |-> (n_a_tmpl :> FpAbsent) @@ (n_b_tmpl :> FpAbsent)
                                            @@ (n_x_txt :> FpAbsent)] }
    \cup
    { [state |-> "present", entries |-> (n_a_tmpl :> a) @@ (n_b_tmpl :> b) @@ (n_x_txt :> x)] :
        a \in {FpAbsent} \cup {FpFile(st, FALSE, 1) : st \in FpStats}
                \cup {FpFile(<< 1, 12 >>, TRUE, 1), FpFile(<< 1, 12 >>, FALSE, 2)},
        b \in {FpAbsent, FpFile(<< 1, 12 >>, FALSE, 1)},
        x \in {FpAbsent} \cup {FpFile(st, FALSE, 1) : st \in FpStats} }

FpInputs == { [file |-> f, dir |-> d] : f \in FpConfigFiles, d \in FpDirs }

InitFingerprint ==
    /\ AtRest
    /\ \E a \in FpInputs, b \in FpInputs :
        pure = [op |-> "fingerprint", a |-> a, b |-> b, done |-> FALSE,
                fpA |-> << >>, fpB |-> << >>, errA |-> "", errB |-> ""]

\* fingerprint(configPath, rt) in each of the two states
ApplyFingerprint ==
    /\ pure.op = "fingerprint"
    /\ ~pure.done
    /\ LET ra == fingerprintBytes(FpConfigPath, pure.a.file, FpTemplateDir, pure.a.dir)
           rb == fingerprintBytes(FpConfigPath, pure.b.file, FpTemplateDir, pure.b.dir)
       IN  pure' = [pure EXCEPT !.done = TRUE, !.fpA = ra.bytes, !.fpB = rb.bytes,
                                !.errA = ra.err, !.errB = rb.err]
    /\ UNCHANGED sysVars

NextFingerprint == ApplyFingerprint

SpecFingerprint == InitFingerprint /\ [][NextFingerprint]_vars

\* what the fingerprint is claimed to depend on
FpRelevant(in) ==
    [file |-> << in.file.size, in.file.mtime >>,
     dirExists |-> in.dir.state # "missing",
     tmpl |-> { << n, in.dir.entries[n].size, in.dir.entries[n].mtime >> :
                    n \in { m \in DOMAIN in.dir.entries :
                              /\ in.dir.state = "present"
                              /\ in.dir.entries[m].present
                              /\ ~in.dir.entries[m].isDir
                              /\ m \in {n_a_tmpl, n_b_tmpl} } }]

\* C11: two fingerprints of the same config path and template directory are
\* equal exactly when the config file's (size, mtime), the existence of the
\* directory, and the names and (size, mtime) of its non-directory *.tmpl
\* entries are the same; other files, subdirectories and contents do not count.
C11_FingerprintEqualIffInputsEqual ==
    (pure.op = "fingerprint" /\ pure.done /\ pure.errA = "" /\ pure.errB = "")
        => ((pure.fpA = pure.fpB) <=> (FpRelevant(pure.a) = FpRelevant(pure.b)))

C11_Witness ==
    /\ pure.op = "fingerprint" /\ pure.done /\ pure.errA = "" /\ pure.errB = ""
    /\ pure.fpA = pure.fpB
    /\ pure.a.file.content # pure.b.file.content
    /\ pure.a.dir.entries[n_x_txt] # pure.b.dir.entries[n_x_txt]
    /\ pure.a.dir.entries[n_a_tmpl].isDir /\ ~pure.b.dir.entries[n_a_tmpl].present
    /\ pure.a.dir.entries[n_b_tmpl].present

(***************************************************************************)
(* internal/server: the handler of /-/reload, which calls                  *)
(* Reload(r.Context(), true) in the "manual" call frame.                   *)
(***************************************************************************)
MaxEventsEndpoint == 3  \* external events in SpecEndpoint

Methods == {"POST", "GET"}

StatusOK == 200
StatusMethodNotAllowed == 405
StatusInternalServerError == 500

\* what the handler writes once Reload has returned err
ReloadResponseAlwaysOK(err) == [code |-> StatusOK, message |-> "ok"]
ReloadResponse(err) ==
    IF err # "" THEN [code |-> StatusInternalServerError, message |-> err]
    ELSE [code |-> StatusOK, message |-> "ok"]

\* if r.Method != http.MethodPost { 405; return }; otherwise the call of Reload begins
H_Request(lim, method) ==
    /\ events < lim
    /\ http.pc \in {"idle", "responded"}
    /\ rl["manual"].pc \in {"idle", "done"}
    /\ events' = events + 1
    /\ IF method # "POST"
       THEN /\ http' = [pc |-> "responded", method |-> method,
                        code |-> StatusMethodNotAllowed,
                        message |-> "method not allowed", reloads |-> 0]
            /\ rl' = rl
       ELSE /\ http' = [pc |-> "reload", method |-> method, code |-> 0, message |-> "",
                        reloads |-> 1]
            /\ rl' = [rl EXCEPT !["manual"] =
                          NewCall(rl["manual"], TRUE, store, clock, lastSuccess)]
    /\ UNCHANGED << pure, fsVars, now, store, mu, mgrVars, enabled, pollerVars, reqVars >>

\* Reload has returned: 500 with err.Error(), or 200
H_Respond ==
    /\ http.pc = "reload"
    /\ rl["manual"].pc = "done"
    /\ LET r == ReloadResponse(rl["manual"].err)
       IN  http' = [http EXCEPT !.pc = "responded", !.code = r.code, !.message = r.message]
    /\ UNCHANGED << pure, fsVars, events, now, store, mu, mgrVars, enabled, rl, pollerVars,
                    reqVars >>

\* file writes and requests to /-/reload
NextEndpoint ==
    \/ Environment(MaxEventsEndpoint)
    \/ \E method \in Methods : H_Request(MaxEventsEndpoint, method)
    \/ \E p \in Reloaders : Reload(p)
    \/ H_Respond

SpecEndpoint == Init /\ [][NextEndpoint]_vars

\* C12: a POST to /-/reload is answered 200 exactly when its Reload(true)
\* returned nil and 500 with the error text exactly when it returned an
\* error, the served snapshot then being the one served when the request
\* came; any other method is answered 405 without a call of Reload.
C12_ReloadEndpointReportsOutcome ==
    http.pc = "responded" =>
        IF http.method = "POST"
        THEN /\ http.reloads = 1
             /\ http.code \in {StatusOK, StatusInternalServerError}
             /\ http.code = StatusOK <=> rl["manual"].err = ""
             /\ http.code = StatusInternalServerError =>
                    (http.message = rl["manual"].err /\ store = rl["manual"].before)
        ELSE /\ http.code = StatusMethodNotAllowed
             /\ http.reloads = 0

C12_Witness ==
    /\ http.pc = "responded"
    /\ http.method = "POST"
    /\ http.code = StatusInternalServerError
    /\ rl["manual"].loaded

(***************************************************************************)
(* Properties of Build on the files as they are.                           *)
(***************************************************************************)
\* the config validates, the template set and the channels compile, and the
\* template of some channel, "default" when blank, is not in the template set
TemplateOfChannelMissing(file, dir) ==
    /\ Load(file).err = ""
    /\ LET cfg == Load(file).cfg
           tpls == NewRenderer(cfg.TemplateDir, dir)
       IN  /\ tpls.err = ""
           /\ compileChannels(RobotsByName(cfg), cfg.Channels).err = ""
           /\ \E i \in 1..Len(cfg.Channels) :
                (IF TrimSpace(cfg.Channels[i].Template) = s_empty
                 THEN s_default ELSE TrimSpace(cfg.Channels[i].Template))
                    \notin tpls.templates

\* C13: when a channel's template name (blank meaning "default") is not in
\* the compiled template set, Build returns an error and no Runtime although
\* validation, the renderer and the channels succeed, and a Reload that met
\* this error stops before m.store.Store.
C13_UnknownTemplateFailsBuild ==
    /\ TemplateOfChannelMissing(cfgFile, tplDir) =>
            /\ LoadFromFile(cfgFile, tplDir, now).err # ""
            /\ LoadFromFile(cfgFile, tplDir, now).rt = NoRuntime
    /\ \A p \in Reloaders :
            rl[p].err = "channel references unknown template" =>
                /\ rl[p].pc \in {"unlock", "done"}
                /\ rl[p].next = NoRuntime
                /\ store = rl[p].before

C13_Witness ==
    /\ TemplateOfChannelMissing(cfgFile, tplDir)
    /\ rl["manual"].pc = "done"
    /\ rl["manual"].err = "channel references unknown template"
    /\ rl["manual"].clock0 = clock

(***************************************************************************)
(* internal/config: Parse applied to configuration documents built from    *)
(* pools of robots, channels and routes.                                   *)
(***************************************************************************)
MaxRobots == 2    \* robots in a document given to Parse
MaxChannels == 2  \* channels in a document given to Parse
MaxRoutes == 1    \* routes in a document given to Parse

s_json == << "j", "s", "o", "n" >>
s_textpad == << " ", "t", "e", "x", "t" >>
s_r2 == << "r", "2" >>

RobotPool ==
    { RobotCfg(s_r1, s_hook, s_textpad), RobotCfg(s_r1pad, s_hook, s_empty),
      RobotCfg(s_empty, s_hook, s_text), RobotCfg(s_r2, s_hook, s_json) }

ChannelPool ==
    { ChannelCfg(s_default, << s_r1 >>, s_empty), ChannelCfg(s_ops, << s_r1 >>, s_empty),
      ChannelCfg(s_ops, << s_r1, s_r2 >>, s_empty), ChannelCfg(s_empty, << s_r1 >>, s_empty),
      ChannelCfg(s_default, << >>, s_empty) }

RoutePool ==
    { RouteCfg(s_route, << >>, << s_ops >>), RouteCfg(s_route, << >>, << >>),
      RouteCfg(s_empty, << >>, << s_nochan >>) }

SeqsUpTo(S, n) == UNION { [1..k -> S] : k \in 0..n }

ParseInputs ==
    { [DocBase EXCEPT !.Robots = rs, !.Channels = cs, !.Routes = ro] :
        rs \in SeqsUpTo(RobotPool, MaxRobots),
        cs \in SeqsUpTo(ChannelPool, MaxChannels),
        ro \in SeqsUpTo(RoutePool, MaxRoutes) }

InitParse ==
    /\ AtRest
    /\ \E data \in ParseInputs :
        pure = [op |-> "parse", data |-> data, done |-> FALSE, err |-> "", cfg |-> data]

\* config.Parse(data, baseDir)
ApplyParse ==
    /\ pure.op = "parse"
    /\ ~pure.done
    /\ LET r == Parse(pure.data)
       IN  pure' = [pure EXCEPT !.done = TRUE, !.err = r.err, !.cfg = r.cfg]
    /\ UNCHANGED sysVars

NextParse == ApplyParse

SpecParse == InitParse /\ [][NextParse]_vars

\* the conditions on a Config, names and msg_type being read without the
\* surrounding whitespace as validate reads them
RobotNamesOf(cfg) == { TrimSpace(cfg.Robots[i].Name) : i \in 1..Len(cfg.Robots) }
ChannelNamesOf(cfg) == { TrimSpace(cfg.Channels[i].Name) : i \in 1..Len(cfg.Channels) }

ConfigConditions(cfg) ==
    /\ \A i \in 1..Len(cfg.Robots) :
            /\ TrimSpace(cfg.Robots[i].Name) # s_empty
            /\ \A j \in 1..Len(cfg.Robots) :
                    j # i => TrimSpace(cfg.Robots[j].Name) # TrimSpace(cfg.Robots[i].Name)
            /\ TrimSpace(cfg.Robots[i].MsgType) \in {s_markdown, s_text}
    /\ \A i \in 1..Len(cfg.Channels) :
            /\ TrimSpace(cfg.Channels[i].Name) # s_empty
            /\ \A j \in 1..Len(cfg.Channels) :
                    j # i => TrimSpace(cfg.Channels[j].Name) # TrimSpace(cfg.Channels[i].Name)
            /\ Len(cfg.Channels[i].Robots) >= 1
            /\ \A k \in 1..Len(cfg.Channels[i].Robots) :
                    cfg.Channels[i].Robots[k] \in RobotNamesOf(cfg)
    /\ s_default \in ChannelNamesOf(cfg)
    /\ \A i \in 1..Len(cfg.Routes) :
            /\ TrimSpace(cfg.Routes[i].Name) # s_empty
            /\ Len(cfg.Routes[i].Channels) >= 1
            /\ \A k \in 1..Len(cfg.Routes[i].Channels) :
                    cfg.Routes[i].Channels[k] \in ChannelNamesOf(cfg)

\* every violated check, in the order in which validate makes the checks
RobotViolations(cfg, i) ==
    LET r == cfg.Robots[i]
    IN  (IF TrimSpace(r.Name) = s_empty
         THEN << "dingtalk.robots[].name must not be empty" >> ELSE << >>)
        \o (IF \E j \in 1..(i - 1) : TrimSpace(cfg.Robots[j].Name) = TrimSpace(r.Name)
            THEN << "dingtalk.robots has duplicate name" >> ELSE << >>)
        \o (IF TrimSpace(r.Webhook) = s_empty
            THEN << "dingtalk.robots[].webhook must not be empty" >> ELSE << >>)
        \o (IF TrimSpace(r.MsgType) \notin {s_markdown, s_text}
            THEN << "dingtalk.robots[].msg_type must be markdown or text" >> ELSE << >>)

ChannelViolations(cfg, i) ==
    LET ch == cfg.Channels[i]
    IN  (IF TrimSpace(ch.Name) = s_empty
         THEN << "dingtalk.channels[].name must not be empty" >> ELSE << >>)
        \o (IF \E j \in 1..(i - 1) : TrimSpace(cfg.Channels[j].Name) = TrimSpace(ch.Name)
            THEN << "dingtalk.channels has duplicate name" >> ELSE << >>)
        \o (IF Len(ch.Robots) = 0
            THEN << "dingtalk.channels[].robots must not be empty" >> ELSE << >>)
        \o (IF \E k \in 1..Len(ch.Robots) : ch.Robots[k] \notin RobotNamesOf(cfg)
            THEN << "dingtalk.channels[] references unknown robot" >> ELSE << >>)

RouteViolations(cfg, i) ==
    LET route == cfg.Routes[i]
    IN  (IF TrimSpace(route.Name) = s_empty
         THEN << "dingtalk.routes[].name must not be empty" >> ELSE << >>)
        \o (IF Len(route.Channels) = 0
            THEN << "dingtalk.routes[].channels must not be empty" >> ELSE << >>)
        \o (IF \E k \in 1..Len(route.Channels) : route.Channels[k] \notin ChannelNamesOf(cfg)
            THEN << "dingtalk.routes[] references unknown channel" >> ELSE << >>)

RECURSIVE ConcatUpTo(_, _, _)
ConcatUpTo(Op(_, _), cfg, n) ==
    IF n = 0 THEN << >> ELSE ConcatUpTo(Op, cfg, n - 1) \o Op(cfg, n)

Violations(cfg) ==
    (IF Len(cfg.Robots) = 0 THEN << "dingtalk.robots must not be empty" >> ELSE << >>)
    \o ConcatUpTo(RobotViolations, cfg, Len(cfg.Robots))
    \o (IF Len(cfg.Channels) = 0 THEN << "dingtalk.channels must not be empty" >> ELSE << >>)
    \o ConcatUpTo(ChannelViolations, cfg, Len(cfg.Channels))
    \o (IF s_default \notin ChannelNamesOf(cfg)
        THEN << "dingtalk.channels.default is required" >> ELSE << >>)
    \o ConcatUpTo(RouteViolations, cfg, Len(cfg.Routes))

s_https_x == << "h", "t", "t", "p", "s", ":", "/", "/", "x" >>
s_ftp_x == << "f", "t", "p", ":", "/", "/", "x" >>
s_https_nohost == << "h", "t", "t", "p", "s", ":", "/", "/", "/", "p" >>
s_noscheme == << ":", "/", "/", "x" >>
s_http == << "h", "t", "t", "p" >>
s_https == << "h", "t", "t", "p", "s" >>

WebhookPool == { s_hook, s_https_x, s_ftp_x, s_https_nohost, s_noscheme }

\* net/url.Parse on these forms: the scheme is what precedes the first ":",
\* and a ":" in first place is the error "missing protocol scheme"
FirstColon(w) ==
    IF \E i \in 1..Len(w) : w[i] = ":"
    THEN CHOOSE i \in 1..Len(w) : w[i] = ":" /\ \A j \in 1..(i - 1) : w[j] # ":"
    ELSE 0

UrlParses(w) == FirstColon(w) # 1
UrlScheme(w) == IF FirstColon(w) = 0 THEN << >> ELSE SubSeq(w, 1, FirstColon(w) - 1)

\* the host: what follows "//" after the scheme, up to the next "/"
UrlHost(w) ==
    LET c == FirstColon(w)
        rest == SubSeq(w, c + 3, Len(w))
        end == IF \E i \in 1..Len(rest) : rest[i] = "/"
               THEN (CHOOSE i \in 1..Len(rest) :
                        rest[i] = "/" /\ \A j \in 1..(i - 1) : rest[j] # "/") - 1
               ELSE Len(rest)
    IN  IF c = 0 \/ Len(w) < c + 2 \/ w[c + 1] # "/" \/ w[c + 2] # "/" THEN << >>
        ELSE SubSeq(rest, 1, end)

\* a webhook that parses, with scheme http or https and a host
WebhookValid(w) ==
    /\ UrlParses(w)
    /\ UrlScheme(w) \in {s_http, s_https}
    /\ UrlHost(w) # << >>

WebhookRobots ==
    { RobotCfg(n, w, s_text) : n \in {s_r1, s_r2}, w \in WebhookPool }

WebhookInputs ==
    { [DocBase EXCEPT !.Robots = rs] : rs \in SeqsUpTo(WebhookRobots, MaxRobots) \ {<< >>} }

InitWebhook ==
    /\ AtRest
    /\ \E data \in WebhookInputs :
        pure = [op |-> "webhook", data |-> data, done |-> FALSE, err |-> "", rt |-> NoRuntime]

\* runtime.LoadFromFile on a file holding the document: config.Load, then Build
ApplyLoadFromFile ==
    /\ pure.op = "webhook"
    /\ ~pure.done
    /\ LET l == Parse(pure.data)
           r == IF l.err # "" THEN [err |-> l.err, rt |-> NoRuntime]
                ELSE Build(l.cfg, tplDir, 0)
       IN  pure' = [pure EXCEPT !.done = TRUE, !.err = r.err, !.rt = r.rt]
    /\ UNCHANGED sysVars

NextWebhook == ApplyLoadFromFile

SpecWebhook == InitWebhook /\ [][NextWebhook]_vars

\* C15: a configuration in which some robot's webhook does not parse as a
\* URL, has a scheme other than http or https, or has no host is rejected by
\* Load, so that no snapshot is built from it.
C15_InvalidWebhookRejected ==
    (/\ pure.op = "webhook"
     /\ pure.done
     /\ \E i \in 1..Len(pure.data.Robots) : ~WebhookValid(pure.data.Robots[i].Webhook))
        => (pure.err # "" /\ pure.rt = NoRuntime)

(***************************************************************************)
(* internal/router (FirstMatch, When.Match; not among the sources, taken   *)
(* from the specification) and the fallback of handleAlert, applied to a   *)
(* route list and a message.                                               *)
(***************************************************************************)
MaxRouteList == 2  \* routes in a list given to FirstMatch

s_other == << "o", "t", "h", "e", "r" >>
s_firing == << "f", "i", "r", "i", "n", "g" >>
s_resolved == << "r", "e", "s", "o", "l", "v", "e", "d" >>
s_severity == << "s", "e", "v", "e", "r", "i", "t", "y" >>
s_critical == << "c", "r", "i", "t", "i", "c", "a", "l" >>
s_warning == << "w", "a", "r", "n", "i", "n", "g" >>

\* one dimension: an empty list matches everything, otherwise any one value
DimensionMatches(allowed, value) ==
    \/ Len(allowed) = 0
    \/ \E k \in 1..Len(allowed) : allowed[k] = value

\* When.Match: every declared dimension must match
WhenMatches(when, msg) ==
    /\ DimensionMatches(when.Receiver, msg.Receiver)
    /\ DimensionMatches(when.Status, msg.Status)
    /\ \A key \in DOMAIN when.Labels :
            /\ key \in DOMAIN msg.Labels
            /\ DimensionMatches(when.Labels[key], msg.Labels[key])

RECURSIVE FirstMatchOfFrom(_, _, _)
FirstMatchOfFrom(routes, i, msg) ==
    IF i > Len(routes) THEN << >>
    ELSE IF WhenMatches(routes[i].When, msg) THEN routes[i].Channels
    ELSE FirstMatchOfFrom(routes, i + 1, msg)

\* router.FirstMatch(rt.Routes, msg)
FirstMatchOf(routes, msg) == FirstMatchOfFrom(routes, 1, msg)

\* if len(channelNames) == 0 { channelNames = []string{"default"} }
NotifiedChannelsNoFallback(matched) == matched
NotifiedChannels(matched) == IF Len(matched) = 0 THEN << s_default >> ELSE matched

NoLabels == [key \in {} |-> << >>]

WhenPool ==
    { [Receiver |-> rc, Status |-> st, Labels |-> lb] :
        rc \in { << >>, << s_ops >>, << s_other, s_ops >> },
        st \in { << >>, << s_firing >> },
        lb \in { NoLabels, (s_severity :> << s_warning, s_critical >>) } }

MatchRoutes ==
    { [When |-> when, Channels |-> chs] :
        when \in WhenPool, chs \in { << s_ops >>, << s_default, s_ops >> } }

MatchMessages ==
    { [Receiver |-> rc, Status |-> st, Labels |-> lb] :
        rc \in { s_ops, s_other, s_default },
        st \in { s_firing, s_resolved },
        lb \in { NoLabels, (s_severity :> s_critical) } }

InitMatch ==
    /\ AtRest
    /\ \E routes \in SeqsUpTo(MatchRoutes, MaxRouteList), msg \in MatchMessages :
        pure = [op |-> "match", routes |-> routes, msg |-> msg, done |-> FALSE,
                channelNames |-> << >>]

\* channelNames := router.FirstMatch(rt.Routes, msg), then the fallback
ApplyFirstMatch ==
    /\ pure.op = "match"
    /\ ~pure.done
    /\ pure' = [pure EXCEPT !.done = TRUE,
                    !.channelNames = NotifiedChannels(FirstMatchOf(pure.routes, pure.msg))]
    /\ UNCHANGED sysVars

NextMatch == ApplyFirstMatch

SpecMatch == InitMatch /\ [][NextMatch]_vars

\* the routes of the list whose predicate the message satisfies
MatchingRoutes(routes, msg) ==
    { i \in 1..Len(routes) :
        /\ routes[i].When.Receiver # << >> =>
                msg.Receiver \in { routes[i].When.Receiver[k] :
                                        k \in 1..Len(routes[i].When.Receiver) }
        /\ routes[i].When.Status # << >> =>
                msg.Status \in { routes[i].When.Status[k] :
                                        k \in 1..Len(routes[i].When.Status) }
        /\ \A key \in DOMAIN routes[i].When.Labels :
                /\ key \in DOMAIN msg.Labels
                /\ routes[i].When.Labels[key] # << >> =>
                        msg.Labels[key] \in { routes[i].When.Labels[key][k] :
                                        k \in 1..Len(routes[i].When.Labels[key]) } }

\* C16: the channels notified are those of the first route, in declaration
\* order, whose predicate matches (all declared dimensions, any listed value
\* in each, an absent dimension matching everything); later matching routes
\* do not count, and with no matching route the list is exactly ["default"].
C16_FirstMatchingRouteWins ==
    (pure.op = "match" /\ pure.done) =>
        LET M == MatchingRoutes(pure.routes, pure.msg)
        IN  IF M = {} THEN pure.channelNames = << s_default >>
            ELSE pure.channelNames =
                    pure.routes[CHOOSE i \in M : \A j \in M : i <= j].Channels

C16_Witness ==
    /\ pure.op = "match" /\ pure.done
    /\ MatchingRoutes(pure.routes, pure.msg) = {1, 2}
    /\ pure.routes[1].Channels # pure.routes[2].Channels
    /\ pure.routes[1].When.Status # << >>
    /\ DOMAIN pure.routes[1].When.Labels # {}
    /\ Len(pure.routes[1].When.Receiver) = 2

(***************************************************************************)
(* Mentions: the effective mention of a channel, the At of the message     *)
(* sent to DingTalk and the "at" entry of the payload.                     *)
(***************************************************************************)
MaxIds == 2   \* identifiers in one list of a mention policy

s_at == <<"@">>
s_u1 == <<"u","1">>
s_u2 == <<"u","2">>
s_at_u1 == <<"@","u","1">>
s_u2pad == <<" ","u","2"," ">>
s_at_sp_u1 == <<"@"," ","u","1">>
s_at_at_u1 == <<"@","@","u","1">>
s_m1 == <<"1","3","8">>
s_at_m1 == <<"@","1","3","8">>

\* strings.TrimPrefix: the prefix is removed once, when it is there
TrimPrefix(s, prefix) ==
    IF Len(s) >= Len(prefix) /\ SubSeq(s, 1, Len(prefix)) = prefix
    THEN SubSeq(s, Len(prefix) + 1, Len(s))
    ELSE s

\* one loop of normalizeMention over a list, from index i, out so far
RECURSIVE normalizeListFrom(_, _, _)
normalizeListFrom(vals, i, out) ==
    IF i > Len(vals) THEN out
    ELSE LET v == TrimPrefix(TrimSpace(vals[i]), s_at)
         IN  IF v = s_empty
             THEN normalizeListFrom(vals, i + 1, out)
             ELSE IF v \in { out[k] : k \in 1..Len(out) }
                  THEN normalizeListFrom(vals, i + 1, out)
                  ELSE normalizeListFrom(vals, i + 1, Append(out, v))

normalizeList(vals) == normalizeListFrom(vals, 1, << >>)

normalizeMentionKeepingLists(m) ==
    [ AtAll |-> m.AtAll,
      AtMobiles |-> normalizeList(m.AtMobiles),
      AtUserIds |-> normalizeList(m.AtUserIds) ]

normalizeMention(m) ==
    IF m.AtAll
    THEN [ AtAll |-> TRUE, AtMobiles |-> << >>, AtUserIds |-> << >> ]
    ELSE [ AtAll |-> FALSE,
           AtMobiles |-> normalizeList(m.AtMobiles),
           AtUserIds |-> normalizeList(m.AtUserIds) ]

\* Channel.EffectiveMention once its loop over the mention rules has left
\* the merged policy in out: the result is the normalized out
EffectiveMentionOf(out) == normalizeMention(out)

NilAt ==
    [ isNil |-> TRUE, AtMobiles |-> << >>, AtUserIds |-> << >>,
      IsAtAll |-> FALSE ]

\* handleAlert: the At of the message, nil when the mention is empty
AtOfMention(mention) ==
    IF mention.AtAll \/ Len(mention.AtMobiles) > 0
                     \/ Len(mention.AtUserIds) > 0
    THEN [ isNil |-> FALSE, AtMobiles |-> mention.AtMobiles,
           AtUserIds |-> mention.AtUserIds, IsAtAll |-> mention.AtAll ]
    ELSE NilAt

NoAtPayload ==
    [ present |-> FALSE, isAtAll |-> FALSE, keys |-> {},
      atMobiles |-> << >>, atUserIds |-> << >> ]

\* addAt: the "at" entry of the payload; keys are the fields it carries
addAt(at) ==
    IF at.isNil THEN NoAtPayload
    ELSE IF ~at.IsAtAll /\ Len(at.AtMobiles) = 0 /\ Len(at.AtUserIds) = 0
    THEN NoAtPayload
    ELSE LET mob == ~at.IsAtAll /\ Len(at.AtMobiles) > 0
             usr == ~at.IsAtAll /\ Len(at.AtUserIds) > 0
         IN  [ present |-> TRUE,
               isAtAll |-> at.IsAtAll,
               keys |-> {"isAtAll"}
                        \cup (IF mob THEN {"atMobiles"} ELSE {})
                        \cup (IF usr THEN {"atUserIds"} ELSE {}),
               atMobiles |-> IF mob THEN at.AtMobiles ELSE << >>,
               atUserIds |-> IF usr THEN at.AtUserIds ELSE << >> ]

UserIdPool == { s_u1, s_at_u1, s_u2pad, s_at_sp_u1, s_at_at_u1, s_empty }
MobilePool == { s_m1, s_at_m1 }

MentionInputs ==
    [ AtAll : BOOLEAN,
      AtMobiles : SeqsUpTo(MobilePool, MaxIds),
      AtUserIds : SeqsUpTo(UserIdPool, MaxIds) ]

\* a merged mention policy, and a message At given to the client as it is
InitMention ==
    /\ AtRest
    /\ \E m \in MentionInputs :
         pure = [ op |-> "mention", out |-> m, done |-> FALSE,
                  mention |-> m, again |-> m,
                  payload |-> NoAtPayload, direct |-> NoAtPayload ]

\* EffectiveMention, the At built from it and its payload; the payload of
\* an At holding out as it is; and normalizeMention on its own result
ApplyMention ==
    /\ pure.op = "mention" /\ ~pure.done
    /\ LET mention == EffectiveMentionOf(pure.out)
       IN  pure' = [ pure EXCEPT
                 !.done = TRUE,
                 !.mention = mention,
                 !.again = normalizeMention(mention),
                 !.payload = addAt(AtOfMention(mention)),
                 !.direct = addAt([ isNil |-> FALSE,
                                    AtMobiles |-> pure.out.AtMobiles,
                                    AtUserIds |-> pure.out.AtUserIds,
                                    IsAtAll |-> pure.out.AtAll ]) ]
    /\ UNCHANGED sysVars

NextMention == ApplyMention

SpecMention == InitMention /\ [][NextMention]_vars

\* C17: at-all takes priority: an effective mention with AtAll has empty
\* AtMobiles and AtUserIds, and a payload built with IsAtAll set carries
\* isAtAll = true and neither atMobiles nor atUserIds.
C17_AtAllTakesPriority ==
    (pure.op = "mention" /\ pure.done) =>
        /\ pure.mention.AtAll = pure.out.AtAll
        /\ pure.mention.AtAll =>
             /\ pure.mention.AtMobiles = << >>
             /\ pure.mention.AtUserIds = << >>
             /\ pure.payload.present /\ pure.payload.isAtAll
             /\ pure.payload.keys = {"isAtAll"}
        /\ pure.out.AtAll =>
             /\ pure.direct.present /\ pure.direct.isAtAll
             /\ pure.direct.keys = {"isAtAll"}

C17_Witness ==
    /\ pure.op = "mention" /\ pure.done
    /\ pure.out.AtAll
    /\ Len(pure.out.AtMobiles) > 0 /\ Len(pure.out.AtUserIds) > 0
    /\ pure.mention.AtAll /\ pure.mention.AtUserIds = << >>
    /\ pure.direct.keys = {"isAtAll"}

IsNormalizedList(vals) ==
    \A i \in 1..Len(vals) :
        /\ vals[i] # s_empty
        /\ TrimSpace(vals[i]) = vals[i]
        /\ Head(vals[i]) # "@"
        /\ \A j \in 1..Len(vals) : vals[j] = vals[i] => j = i

\* C18: without at-all, every identifier normalizeMention returns is
\* non-empty, has no leading or trailing whitespace, does not start with "@"
\* and occurs once in its list; normalizing the result again changes nothing.
C18_NormalizedIdentifiers ==
    (pure.op = "mention" /\ pure.done /\ ~pure.out.AtAll) =>
        /\ IsNormalizedList(pure.mention.AtMobiles)
        /\ IsNormalizedList(pure.mention.AtUserIds)
        /\ pure.again = pure.mention

(***************************************************************************)
(* Token authentication of alert requests: checkToken on the headers of    *)
(* the request, and handleAlert with the answer it writes.                 *)
(***************************************************************************)
MaxEventsAuth == 3  \* external events in SpecAuth

StatusUnauthorized == 401

s_bearer_sp == <<"b","e","a","r","e","r"," ">>
s_Bearer_a == <<"B","e","a","r","e","r"," ","a">>
s_BEARER_b == <<"B","E","A","R","E","R"," "," ","b"," ">>
s_Basic_a == <<"B","a","s","i","c"," ","a">>
s_bpad == <<" ","b"," ">>

UpperToLower ==
    [ c \in {"A","B","C","E","I","R","S"} |->
        CASE c = "A" -> "a" [] c = "B" -> "b" [] c = "C" -> "c"
          [] c = "E" -> "e" [] c = "I" -> "i" [] c = "R" -> "r"
          [] c = "S" -> "s" ]

\* strings.ToLower
ToLower(s) ==
    [ i \in 1..Len(s) |->
        IF s[i] \in DOMAIN UpperToLower THEN UpperToLower[s[i]] ELSE s[i] ]

\* strings.HasPrefix
HasPrefix(s, prefix) ==
    Len(s) >= Len(prefix) /\ SubSeq(s, 1, Len(prefix)) = prefix

\* a checkToken that rejects only a request without any token
checkTokenMissingOnly(r, expected) ==
    IF TrimSpace(expected) = s_empty THEN ""
    ELSE IF HasPrefix(ToLower(TrimSpace(r.Authorization)), s_bearer_sp) THEN ""
    ELSE IF TrimSpace(r.XToken) # s_empty THEN ""
    ELSE "missing token"

\* checkToken(r, expected) on the Authorization and X-Token headers of r;
\* the result is the error text, "" for nil
checkTokenHeaders(r, expected) ==
    IF TrimSpace(expected) = s_empty THEN ""
    ELSE LET auth == TrimSpace(r.Authorization)
         IN  IF HasPrefix(ToLower(auth), s_bearer_sp)
             THEN LET token == TrimSpace(SubSeq(auth, Len(s_bearer_sp) + 1, Len(auth)))
                  IN  IF token = expected THEN "" ELSE "token mismatch"
             ELSE LET token == TrimSpace(r.XToken)
                  IN  IF token # s_empty
                      THEN IF token = expected THEN "" ELSE "token mismatch"
                      ELSE "missing token"

\* header values of a request; the empty string is a header that is not set
AuthorizationPool == { s_empty, s_Bearer_a, s_BEARER_b, s_Basic_a }
XTokenPool == { s_empty, s_a, s_bpad }

\* the documents written in SpecAuth: tokens "a", "b" and the blank one
AuthDocs == {1, 2, 9}

\* a POST of a JSON body to the alert path: rt := opts.State.Load()
Au_Request(lim, authorization, xToken) ==
    /\ events < lim
    /\ alert.pc \in {"idle", "answered"}
    /\ StoreLoadReady(mu)
    /\ events' = events + 1
    /\ alert' = [ pc |-> "auth", rt |-> store, token |-> s_empty,
                  receiver |-> s_default, channelNames |-> << >>, i |-> 0,
                  failed |-> FALSE, loads |-> 1, seen |-> {},
                  duringReload |-> (mu \in Reloaders),
                  Authorization |-> authorization, XToken |-> xToken,
                  code |-> 0 ]
    /\ UNCHANGED << otherVars, fsVars, now, store, mu, mgrVars, enabled, rl,
                    pollerVars, status, admin >>

\* checkToken(r, rt.Config.Auth.Token): 401, or the body is read and routed
Au_Check ==
    /\ alert.pc = "auth"
    /\ "Authorization" \in DOMAIN alert
    /\ LET rt == AlertSnapshot(alert, store)
           names == FirstMatch(rt.Routes, alert.receiver)
       IN  IF checkTokenHeaders(alert, rt.Config.Token) # ""
           THEN alert' = [alert EXCEPT !.pc = "answered",
                                       !.code = StatusUnauthorized]
           ELSE alert' = [alert EXCEPT
                    !.pc = "deliver",
                    !.channelNames = IF Len(names) = 0 THEN << s_default >>
                                     ELSE names,
                    !.i = 1,
                    !.seen = @ \cup {rt.LoadedAt}]
    /\ UNCHANGED << otherVars, fsVars, events, now, store, mu, mgrVars, enabled,
                    rl, pollerVars, status, admin >>

\* if len(sendErrs) > 0 { 500 } else { 200 }
Au_Respond ==
    /\ alert.pc = "deliver"
    /\ alert.i > Len(alert.channelNames)
    /\ alert' = [alert EXCEPT !.pc = "answered",
                              !.code = IF alert.failed
                                       THEN StatusInternalServerError
                                       ELSE StatusOK]
    /\ UNCHANGED << otherVars, fsVars, events, now, store, mu, mgrVars, enabled,
                    rl, pollerVars, status, admin >>

\* file writes, direct reloads and alert requests with their headers
NextAuth ==
    \/ \E d \in AuthDocs : WriteConfig(MaxEventsAuth, d)
    \/ M_Call(MaxEventsAuth, TRUE)
    \/ \E p \in Reloaders : Reload(p)
    \/ \E authorization \in AuthorizationPool, xToken \in XTokenPool :
            Au_Request(MaxEventsAuth, authorization, xToken)
    \/ Au_Check
    \/ \E sent \in BOOLEAN : A_Deliver(sent)
    \/ Au_Respond

SpecAuth == Init /\ [][NextAuth]_vars

\* the request carries the token as "Authorization: Bearer <token>" or as
\* "X-Token: <token>"
CarriesToken(r, token) ==
    \/ \E k \in 1..Len(r.Authorization) :
         /\ ToLower(TrimSpace(SubSeq(r.Authorization, 1, k))) = TrimSpace(s_bearer_sp)
         /\ k < Len(r.Authorization) /\ r.Authorization[k + 1] = " "
         /\ TrimSpace(SubSeq(r.Authorization, k + 1, Len(r.Authorization))) = token
    \/ TrimSpace(r.XToken) = token

\* C19: with a non-blank token in the snapshot loaded for the request, the
\* request is rendered and sent only if it carries that exact token as
\* "Authorization: Bearer <token>" or "X-Token: <token>", and is answered
\* 401 with nothing sent otherwise; with a blank token it is admitted.
C19_TokenAuth ==
    ("Authorization" \in DOMAIN alert /\ alert.pc \in {"deliver", "answered"}) =>
        LET expected == alert.rt.Config.Token
            admitted == alert.i > 0
        IN  /\ TrimSpace(expected) = s_empty => admitted
            /\ (TrimSpace(expected) # s_empty /\ admitted)
                    => CarriesToken(alert, expected)
            /\ ~admitted => /\ alert.pc = "answered"
                            /\ alert.code = StatusUnauthorized
            /\ admitted => ~(alert.pc = "answered"
                             /\ alert.code = StatusUnauthorized)

C19_Witness ==
    /\ "Authorization" \in DOMAIN alert /\ alert.pc = "answered"
    /\ alert.code = StatusUnauthorized /\ alert.i = 0
    /\ alert.XToken = s_a
    /\ alert.rt.Config.Token = s_b
    /\ lastSuccess > 0

(***************************************************************************)
(* Secrets in the admin view: config.Secret and config.SecretURL, the      *)
(* validation of admin.basic_auth, and GET /api/v1/config/json.            *)
(***************************************************************************)

RedactedSecret == <<"<","s","e","c","r","e","t",">">>
s_null == <<"n","u","l","l">>

isBlankString(s) == TrimSpace(s) = s_empty

\* a string as JSON text, for strings that need no escape
JSONString(s) == << "\"" >> \o s \o << "\"" >>

\* json.Unmarshal(data, &v) into a string, for the same strings
JSONStringValue(data) ==
    IF Len(data) >= 2 /\ Head(data) = "\"" /\ data[Len(data)] = "\""
    THEN SubSeq(data, 2, Len(data) - 1)
    ELSE s_empty

\* a marshaller that writes the value itself
MarshalJSONPlain(s) == JSONString(s)

\* Secret.MarshalJSON and SecretURL.MarshalJSON
MarshalJSON(s) ==
    IF isBlankString(s) THEN JSONString(s_empty)
    ELSE JSONString(RedactedSecret)

\* Secret.UnmarshalJSON and SecretURL.UnmarshalJSON: the value stored
UnmarshalJSON(data) ==
    IF Len(data) = 0 \/ data = s_null THEN s_empty
    ELSE LET v == JSONStringValue(data)
         IN  IF v = RedactedSecret THEN s_empty ELSE v

HexChars == {"0","1","2","3","4","5","6","7","8","9",
             "a","b","c","d","e","f","A","B","C","D","E","F"}

\* hex.DecodeString: "" when it decodes, else the first invalid byte
HexInvalidByte(s) ==
    IF \A i \in 1..Len(s) : s[i] \in HexChars THEN ""
    ELSE s[CHOOSE i \in 1..Len(s) :
                /\ s[i] \notin HexChars
                /\ \A j \in 1..(i - 1) : s[j] \in HexChars]

Base64Chars == AlnumChars \cup {"+", "/"}

\* base64.StdEncoding.DecodeString succeeds: groups of four characters of
\* the alphabet, the last group padded with at most two "="
Base64Decodes(s) ==
    /\ Len(s) % 4 = 0
    /\ \E pad \in 0..2 :
         /\ pad <= Len(s)
         /\ \A i \in 1..Len(s) :
                IF i > Len(s) - pad THEN s[i] = "=" ELSE s[i] \in Base64Chars

\* validate: the checks under cfg.Admin.Enabled
validateBasicAuth(cfg) ==
    IF ~cfg.AdminEnabled THEN ""
    ELSE IF TrimSpace(cfg.AdminUser) = s_empty
    THEN "admin.basic_auth.username must not be empty"
    ELSE IF TrimSpace(cfg.Password) = s_empty /\ TrimSpace(cfg.PasswordSHA256) = s_empty
    THEN "admin.basic_auth.password or admin.basic_auth.password_sha256 is required"
    ELSE IF TrimSpace(cfg.Password) # s_empty /\ TrimSpace(cfg.PasswordSHA256) # s_empty
    THEN "admin.basic_auth.password and admin.basic_auth.password_sha256 are mutually exclusive"
    ELSE IF TrimSpace(cfg.PasswordSHA256) = s_empty THEN ""
    ELSE LET sha == TrimSpace(cfg.PasswordSHA256)
         IN  IF Len(sha) # Sha256HexLen
             THEN "admin.basic_auth.password_sha256 must be 64 hex chars"
             ELSE IF HexInvalidByte(sha) # ""
             THEN "admin.basic_auth.password_sha256 must be hex: encoding/hex: invalid byte: "
                      \o HexInvalidByte(sha)
             ELSE IF TrimSpace(cfg.Salt) = s_empty
             THEN "admin.basic_auth.salt is required when password_sha256 is set"
             ELSE IF ~Base64Decodes(TrimSpace(cfg.Salt))
             THEN "admin.basic_auth.salt must be base64"
             ELSE ""

\* config.Parse of a document with all the fields of admin.basic_auth
ParseBasicAuth(data) ==
    IF ~data.yaml THEN [err |-> "parse yaml", cfg |-> data]
    ELSE LET cfg == applyDefaults(data)
             err == validateBasicAuth(cfg)
         IN  IF err # "" THEN [err |-> err, cfg |-> cfg]
             ELSE [err |-> validate([cfg EXCEPT !.AdminEnabled = FALSE]),
                   cfg |-> cfg]

\* toAdminConfigJSON as the encoder writes it: the secret fields are the
\* texts their MarshalJSON returns
toAdminConfigJSON(cfg) ==
    [ Token |-> MarshalJSON(cfg.Token),
      Enabled |-> cfg.AdminEnabled,
      Username |-> cfg.AdminUser,
      Password |-> MarshalJSON(cfg.Password),
      PasswordSHA256 |-> MarshalJSON(cfg.PasswordSHA256),
      Salt |-> MarshalJSON(cfg.Salt),
      Robots |-> [ i \in 1..Len(cfg.Robots) |->
                    [ Name |-> cfg.Robots[i].Name,
                      Webhook |-> MarshalJSON(cfg.Robots[i].Webhook),
                      Secret |-> MarshalJSON(cfg.Robots[i].Secret),
                      MsgType |-> cfg.Robots[i].MsgType ] ],
      Channels |-> cfg.Channels,
      Routes |-> cfg.Routes ]

NoAdminConfigJSON == [ Token |-> s_empty ]

\* configSensitiveInfo of handleConfigJSON
SensitiveInfo(parsed) ==
    [ AuthTokenSet |-> TrimSpace(parsed.Token) # s_empty,
      AdminPasswordSet |-> TrimSpace(parsed.Password) # s_empty,
      AdminPasswordSHA256Set |-> TrimSpace(parsed.PasswordSHA256) # s_empty,
      AdminSaltSet |-> TrimSpace(parsed.Salt) # s_empty,
      Robots |-> { << TrimSpace(parsed.Robots[i].Name),
                      TrimSpace(parsed.Robots[i].Webhook) # s_empty,
                      TrimSpace(parsed.Robots[i].Secret) # s_empty >> :
                   i \in { k \in 1..Len(parsed.Robots) :
                             TrimSpace(parsed.Robots[k].Name) # s_empty } } ]

StatusBadRequest == 400

\* handleConfigJSON, GET, on the document the config file holds
handleConfigJSONGet(data) ==
    LET p == ParseBasicAuth(data)
    IN  IF p.err # ""
        THEN [ status |-> StatusBadRequest, Message |-> p.err,
               config |-> NoAdminConfigJSON, sensitive |-> {} ]
        ELSE [ status |-> StatusOK, Message |-> "",
               config |-> toAdminConfigJSON(p.cfg),
               sensitive |-> SensitiveInfo(p.cfg) ]

s_p == <<"p">>
s_hexZ == [ i \in 1..Sha256HexLen |-> IF i = 2 THEN "z" ELSE "a" ]
s_hexShort == <<"a","b">>
s_salt2 == <<"c","2","F","z">>
s_saltBad == <<"s","!">>
s_hook_y == <<"h","t","t","p",":","/","/","y">>
s_S1 == <<"S","1">>

SecretTokenPool == { s_empty, s_a, s_b }
PasswordPool == { s_empty, s_p }
PasswordSHA256Pool == { s_empty, s_hexA, s_hexB, s_hexZ, s_hexShort }
SaltPool == { s_empty, s_salt, s_salt2, s_saltBad }
SecretWebhookPool == { s_empty, s_hook, s_hook_y }
RobotSecretPool == { s_empty, s_S1 }

SecretDoc(token, adminOn, password, sha, salt, webhook, secret) ==
    [ yaml |-> TRUE, Token |-> token, ReloadEnabled |-> TRUE,
      AdminEnabled |-> adminOn, AdminUser |-> s_a,
      Password |-> password, PasswordSHA256 |-> sha, Salt |-> salt,
      TemplateDir |-> s_templates,
      Robots |-> << [ Name |-> s_r1, Webhook |-> webhook, Secret |-> secret,
                      MsgType |-> s_text ] >>,
      Channels |-> << ChannelCfg(s_default, <<s_r1>>, s_empty) >>,
      Routes |-> << >> ]

\* the values of the pool a secret may be replaced by: itself when blank,
\* any non-blank value otherwise
OtherValues(v, pool) ==
    IF isBlankString(v) THEN {v} ELSE { w \in pool : ~isBlankString(w) }

\* the secrets of a document: every one MarshalJSON is applied to
SecretsOf(d) ==
    << d.Token, d.Password, d.PasswordSHA256, d.Salt,
       d.Robots[1].Webhook, d.Robots[1].Secret >>

\* two documents that differ at most in the values of non-blank secrets
InitSecrets ==
    /\ AtRest
    /\ \E token \in SecretTokenPool, adminOn \in BOOLEAN,
          password \in PasswordPool, sha \in PasswordSHA256Pool,
          salt \in SaltPool, webhook \in SecretWebhookPool,
          secret \in RobotSecretPool :
        \E token2 \in OtherValues(token, SecretTokenPool),
           password2 \in OtherValues(password, PasswordPool),
           sha2 \in OtherValues(sha, PasswordSHA256Pool),
           salt2 \in OtherValues(salt, SaltPool),
           webhook2 \in OtherValues(webhook, SecretWebhookPool),
           secret2 \in OtherValues(secret, RobotSecretPool) :
          pure = [ op |-> "secrets", done |-> FALSE,
                   doc1 |-> SecretDoc(token, adminOn, password, sha, salt,
                                      webhook, secret),
                   doc2 |-> SecretDoc(token2, adminOn, password2, sha2, salt2,
                                      webhook2, secret2),
                   out1 |-> NoAdminConfigJSON, out2 |-> NoAdminConfigJSON,
                   texts |-> << >>, values |-> << >> ]

\* GET /api/v1/config/json on each document; each secret of the first one
\* marshalled, and the text unmarshalled again
ApplyConfigJSON ==
    /\ pure.op = "secrets" /\ ~pure.done
    /\ LET secrets == SecretsOf(pure.doc1)
           texts == [ i \in 1..Len(secrets) |-> MarshalJSON(secrets[i]) ]
       IN  pure' = [ pure EXCEPT
                 !.done = TRUE,
                 !.out1 = handleConfigJSONGet(pure.doc1),
                 !.out2 = handleConfigJSONGet(pure.doc2),
                 !.texts = texts,
                 !.values = [ i \in 1..Len(texts) |-> UnmarshalJSON(texts[i]) ] ]
    /\ UNCHANGED sysVars

NextSecrets == ApplyConfigJSON

SpecSecrets == InitSecrets /\ [][NextSecrets]_vars

\* a non-blank secret is written as the placeholder and a blank one as "",
\* and what is read back from either is the empty value
SecretsRedacted ==
    LET secrets == SecretsOf(pure.doc1)
    IN  \A i \in 1..Len(secrets) :
            /\ pure.texts[i] = IF TrimSpace(secrets[i]) = s_empty
                               THEN << "\"", "\"" >>
                               ELSE << "\"" >> \o RedactedSecret \o << "\"" >>
            /\ pure.values[i] = s_empty

\* C20 as stated: secrets are written as "<secret>" or "", read back as
\* empty, and two configurations that differ only in the values of their
\* non-blank secrets give the same answer to GET /api/v1/config/json.
C20_SecretsNeverInView ==
    (pure.op = "secrets" /\ pure.done) =>
        /\ SecretsRedacted
        /\ pure.out1 = pure.out2

\* C20, amended: the answers are the same when both configurations pass
\* validation; a configuration that validation rejects has no view, and its
\* answer is 400 with the validation error.
C20_SecretsNeverInViewOfValid ==
    (pure.op = "secrets" /\ pure.done) =>
        /\ SecretsRedacted
        /\ (pure.out1.status = StatusOK /\ pure.out2.status = StatusOK)
                => pure.out1 = pure.out2
        /\ \A out \in {pure.out1, pure.out2} :
                out.status # StatusOK =>
                    /\ out.status = StatusBadRequest
                    /\ out.config = NoAdminConfigJSON

C20_Witness ==
    /\ pure.op = "secrets" /\ pure.done
    /\ pure.out1.status = StatusOK /\ pure.out2.status = StatusOK
    /\ pure.doc1.AdminEnabled
    /\ \A i \in {1, 3, 4, 5} :
            /\ SecretsOf(pure.doc1)[i] # s_empty
            /\ SecretsOf(pure.doc1)[i] # SecretsOf(pure.doc2)[i]
    /\ pure.doc1.Robots[1].Secret # s_empty
    /\ pure.out1.config.Token = << "\"" >> \o RedactedSecret \o << "\"" >>

(***************************************************************************)
(* admin: applyImport.  The staging directory lies beside the template     *)
(* directory and is removed when the call returns; the backup directory    *)
(* is the template directory under another name.  An operation of the      *)
(* file system that can fail takes its outcome as a parameter.             *)
(***************************************************************************)
MaxEventsImport == 3  \* external events in SpecImport

s_import == <<".","i","m","p","o","r","t">>

\* the templates of the zip: none, only "default", or "default" and a
\* "custom" whose text parses (good) or does not (bad)
ImportTemplates == {"none", "default", "good", "bad"}
ImportConfigs == {2, 7}
ImportBytes == {2, 3}

MissingDir == [state |-> "missing", files |-> [b \in TplBases |-> NoTpl]]

\* the staging directory once the loop over templates has written it
StagedDir(templates, clk) ==
    [state |-> "present",
     files |-> [b \in TplBases |->
                  IF templates = "good"
                  THEN [present |-> TRUE, good |-> TRUE, ver |-> clk]
                  ELSE NoTpl]]

\* a restoreConfig that writes the (empty) old bytes whatever oldCfgExists
restoreConfigAlwaysWrites(old, clk) ==
    [exists |-> TRUE, doc |-> IF old.exists THEN old.doc ELSE EmptyDoc,
     ver |-> clk]

\* restoreConfig: the config file afterwards
restoreConfig(old, clk) ==
    IF old.exists THEN [exists |-> TRUE, doc |-> old.doc, ver |-> clk]
    ELSE NoFile

\* restoreTemplates: os.RemoveAll(newTemplatesDir), then the backup back
restoreTemplates(hasBackup, backup) ==
    IF hasBackup THEN backup ELSE MissingDir

ImportIdle ==
    [pc |-> "idle", kind |-> "import", cfg |-> 1, bytes |-> 1, templates |-> "none",
     old |-> NoFile, hasBackup |-> FALSE, backup |-> MissingDir, err |-> "",
     before |-> NoRuntime, pre |-> [file |-> NoFile, dir |-> MissingDir],
     post |-> [file |-> NoFile, dir |-> MissingDir, served |-> NoRuntime],
     reloads |-> 0]

ImportAtRest == admin.pc \in {"idle", "returned"}

\* return err (or nil): what the caller finds when the call has returned
ImportReturn(frame, err, file, dir, served) ==
    [frame EXCEPT !.pc = "returned", !.err = err,
                  !.post = [file |-> file, dir |-> dir, served |-> served]]

\* a call applyImport(ctx, logger, reloadMgr, configPath, cfg, cfgBytes, templates)
Im_Call(lim, cfg, bytes, templates) ==
    /\ events < lim
    /\ ImportAtRest
    /\ rl["admin"].pc \in {"idle", "done"}
    /\ events' = events + 1
    /\ admin' = [ImportIdle EXCEPT !.pc = "stage", !.cfg = cfg, !.bytes = bytes,
                                   !.templates = templates, !.before = store,
                                   !.pre = [file |-> cfgFile, dir |-> tplDir]]
    /\ UNCHANGED << otherVars, fsVars, now, store, mu, mgrVars, enabled, rl,
                    pollerVars, alert, status >>

\* len(templates) == 0; os.ReadFile(configPath); os.MkdirAll; os.MkdirTemp;
\* the loop of template.ValidateText and os.WriteFile; runtime.Build on the
\* staging directory
Im_Stage(ok) ==
    /\ admin.pc = "stage" /\ admin.kind = "import"
    /\ LET cfg == applyDefaults(Docs[admin.cfg])
           cfgCopy == [cfg EXCEPT !.TemplateDir = s_import]
           built == Build(cfgCopy, StagedDir(admin.templates, clock), now)
           err == IF admin.templates = "none" THEN "missing templates in zip"
                  ELSE IF ~ok THEN "mkdir"
                  ELSE IF admin.templates = "bad" THEN "invalid template"
                  ELSE built.err
       IN  IF err # ""
           THEN admin' = ImportReturn(admin, err, cfgFile, tplDir, store)
           ELSE admin' = [admin EXCEPT !.pc = "backup", !.old = cfgFile]
    /\ UNCHANGED << otherVars, fsVars, events, now, store, mu, mgrVars, enabled, rl,
                    pollerVars, alert, status >>

\* if st, err := os.Stat(newTemplatesDir); err == nil && st.IsDir():
\* os.Rename(newTemplatesDir, backupDir)
Im_Backup(ok) ==
    /\ admin.pc = "backup" /\ admin.kind = "import"
    /\ LET named == TrimSpace(Docs[admin.cfg].TemplateDir) # s_empty
       IN  IF ~named \/ tplDir.state = "missing"
           THEN /\ admin' = [admin EXCEPT !.pc = "install"]
                /\ tplDir' = tplDir
           ELSE IF ~ok
           THEN /\ admin' = ImportReturn(admin, "rename", cfgFile, tplDir, store)
                /\ tplDir' = tplDir
           ELSE /\ admin' = [admin EXCEPT !.pc = "install", !.hasBackup = TRUE,
                                          !.backup = tplDir]
                /\ tplDir' = MissingDir
    /\ UNCHANGED << otherVars, cfgFile, clock, events, now, store, mu, mgrVars, enabled,
                    rl, pollerVars, alert, status >>

\* os.Rename(stagingDir, newTemplatesDir), the backup renamed back on error
Im_Install(ok) ==
    /\ admin.pc = "install" /\ admin.kind = "import"
    /\ LET named == TrimSpace(Docs[admin.cfg].TemplateDir) # s_empty
       IN  IF ~named \/ ~ok
           THEN /\ tplDir' = IF admin.hasBackup THEN admin.backup ELSE tplDir
                /\ admin' = ImportReturn(admin, "rename", cfgFile, tplDir', store)
                /\ clock' = clock
           ELSE /\ clock' = clock + 1
                /\ tplDir' = StagedDir(admin.templates, clock')
                /\ admin' = [admin EXCEPT !.pc = "write"]
    /\ UNCHANGED << otherVars, cfgFile, events, now, store, mu, mgrVars, enabled, rl,
                    pollerVars, alert, status >>

\* writeFileAtomic(configPath, cfgBytes): on error restoreConfig and
\* restoreTemplates; else reloadMgr.Reload(ctx, true) is called
Im_Write(ok) ==
    /\ admin.pc = "write" /\ admin.kind = "import"
    /\ clock' = clock + 1
    /\ IF ~ok
       THEN /\ cfgFile' = restoreConfig(admin.old, clock')
            /\ tplDir' = restoreTemplates(admin.hasBackup, admin.backup)
            /\ admin' = ImportReturn(admin, "write", cfgFile', tplDir', store)
            /\ rl' = rl
       ELSE /\ cfgFile' = [exists |-> TRUE, doc |-> admin.bytes, ver |-> clock']
            /\ tplDir' = tplDir
            /\ admin' = [admin EXCEPT !.pc = "reload1", !.reloads = 1]
            /\ rl' = [rl EXCEPT !["admin"] =
                          NewCall(rl["admin"], TRUE, store, clock, lastSuccess)]
    /\ UNCHANGED << otherVars, events, now, store, mu, mgrVars, enabled, pollerVars,
                    alert, status >>

\* if err := reloadMgr.Reload(ctx, true); err != nil { restoreConfig();
\* restoreTemplates(); _ = reloadMgr.Reload(ctx, true); return err };
\* os.RemoveAll(backupDir); return nil
Im_AfterReload ==
    /\ admin.pc = "reload1" /\ admin.kind = "import"
    /\ rl["admin"].pc = "done"
    /\ IF rl["admin"].err = ""
       THEN /\ admin' = ImportReturn(admin, "", cfgFile, tplDir, store)
            /\ rl' = [rl EXCEPT !["admin"] = RlIdle]
            /\ UNCHANGED << cfgFile, tplDir, clock >>
       ELSE /\ clock' = clock + 1
            /\ cfgFile' = restoreConfig(admin.old, clock')
            /\ tplDir' = restoreTemplates(admin.hasBackup, admin.backup)
            /\ admin' = [admin EXCEPT !.pc = "reload2", !.err = rl["admin"].err,
                                      !.reloads = 2]
            /\ rl' = [rl EXCEPT !["admin"] =
                          NewCall(rl["admin"], TRUE, store, clock, lastSuccess)]
    /\ UNCHANGED << otherVars, events, now, store, mu, mgrVars, enabled, pollerVars,
                    alert, status >>

\* the second Reload has returned, its error dropped: return err
Im_AfterSecondReload ==
    /\ admin.pc = "reload2" /\ admin.kind = "import"
    /\ rl["admin"].pc = "done"
    /\ admin' = ImportReturn(admin, admin.err, cfgFile, tplDir, store)
    /\ rl' = [rl EXCEPT !["admin"] = RlIdle]
    /\ UNCHANGED << otherVars, fsVars, events, now, store, mu, mgrVars, enabled,
                    pollerVars, alert, status >>

applyImport(lim) ==
    \/ \E cfg \in ImportConfigs, bytes \in ImportBytes, templates \in ImportTemplates :
            Im_Call(lim, cfg, bytes, templates)
    \/ \E ok \in BOOLEAN : Im_Stage(ok)
    \/ \E ok \in BOOLEAN : Im_Backup(ok)
    \/ \E ok \in BOOLEAN : Im_Install(ok)
    \/ \E ok \in BOOLEAN : Im_Write(ok)
    \/ Im_AfterReload
    \/ Im_AfterSecondReload

\* what is done to the files between imports
ImportEnvironment(lim) ==
    \/ WriteConfig(lim, 7)
    \/ RemoveConfig(lim)
    \/ \E b \in TplBases : RemoveTemplate(lim, b)
    \/ RemoveDir(lim)

\* file writes between imports, calls of applyImport with their reloads,
\* and the poller
NextImport ==
    \/ ImportAtRest /\ ImportEnvironment(MaxEventsImport)
    \/ applyImport(MaxEventsImport)
    \/ Poller(MaxEventsImport)
    \/ \E p \in Reloaders : Reload(p)

SpecImport == Init /\ [][NextImport]_vars

\* what a file or a directory holds, whatever its modification times
FileContent(file) == IF file.exists THEN << "file", file.doc >> ELSE << "absent" >>
DirContent(dir) ==
    << dir.state,
       [b \in TplBases |-> IF dir.files[b].present
                           THEN << "file", dir.files[b].good >>
                           ELSE << "absent" >>] >>

\* served is what LoadFromFile makes of the files
BuiltFrom(served, file, dir) ==
    LET r == LoadFromFile(file, dir, served.LoadedAt)
    IN  r.err = "" /\ r.rt = served

\* the files after a failed call hold what they held before it
FailedImportRestoresFiles ==
    (admin.kind = "import" /\ admin.pc = "returned" /\ admin.err # "") =>
        /\ FileContent(admin.post.file) = FileContent(admin.pre.file)
        /\ DirContent(admin.post.dir) = DirContent(admin.pre.dir)

\* C21: when applyImport has returned an error, the config file and the
\* template directory hold what they held before the call (or are absent as
\* before), and the served snapshot is the one from before the call or a
\* build of the restored files.
C21_FailedImportRestoresFiles ==
    /\ FailedImportRestoresFiles
    /\ (admin.kind = "import" /\ admin.pc = "returned" /\ admin.err # "") =>
            \/ admin.post.served = admin.before
            \/ BuiltFrom(admin.post.served, admin.post.file, admin.post.dir)

(***************************************************************************)
(* ReloadIfChanged when nothing has changed.                               *)
(***************************************************************************)
\* ReloadIfChanged is at its comparison with the fingerprint it computed
\* equal to the recorded one
AtUnchangedCompare == pollerPc = "ric_cmp" /\ pollerFP = lastFingerprint

\* C22: ReloadIfChanged, when the fingerprint it computed equals the recorded
\* one, returns without calling Reload: the poller is back at its select, no
\* Reload call frame is created, and the store, lastFingerprint, LastSuccess
\* and LastError are what they were.
C22_UnchangedFingerprintIsNoOp ==
    [][(AtUnchangedCompare /\ pollerPc' # pollerPc) =>
            /\ pollerPc' = "select"
            /\ rl' = rl
            /\ store' = store
            /\ mgrVars' = mgrVars]_vars

\* the comparison is reached with an unchanged fingerprint that an earlier
\* reload of the poller recorded
C22_Witness ==
    /\ AtUnchangedCompare
    /\ mu = "free"
    /\ lastSuccess > 0
    /\ rl["poller"].pc = "done"

(***************************************************************************)
(* Status() while a Reload reads and compiles.                             *)
(***************************************************************************)
\* a Reload is in runtime.LoadFromFile or in the fingerprint of its result
Rebuilding == \E p \in Reloaders : rl[p].pc \in {"load", "fp2"}

\* Status reads m.enabled, m.lastSuccess and m.lastError while no Reload is
\* between its Lock and its Unlock
StatusReadsConsistentTriple ==
    status.pc = "read" => \A p \in Reloaders : rl[p].pc \notin Critical

\* C23: a Status() call that has been issued while a Reload is reading and
\* compiling the configuration can take its next step at once (it does not
\* wait for the rebuild), and what it reads is the triple from before or
\* after that Reload.
C23_StatusNeverWaitsForRebuild ==
    /\ (status.pc = "lock" /\ Rebuilding) => ENABLED S_Lock
    /\ StatusReadsConsistentTriple

(***************************************************************************)
(* Channel.EffectiveMention on a channel with mention rules.  When.Match   *)
(* and router.MergeMention are not among the sources and are taken from    *)
(* the specification: the merge is field by field, a field the rule sets   *)
(* replaces the running one, a field it leaves unset keeps it.             *)
(***************************************************************************)
MaxMentionRules == 2  \* mention rules of a channel

\* router.MergeMention(out, rule.Mention)
MergeMention(out, m) ==
    [ AtAll |-> IF m.AtAll THEN TRUE ELSE out.AtAll,
      AtMobiles |-> IF Len(m.AtMobiles) > 0 THEN m.AtMobiles ELSE out.AtMobiles,
      AtUserIds |-> IF Len(m.AtUserIds) > 0 THEN m.AtUserIds ELSE out.AtUserIds ]

\* for _, rule := range c.MentionRules { if rule.When.Match(msg) { out = MergeMention(...) } }
RECURSIVE MergeRulesFrom(_, _, _, _)
MergeRulesFrom(out, rules, i, msg) ==
    IF i > Len(rules) THEN out
    ELSE IF WhenMatches(rules[i].When, msg)
    THEN MergeRulesFrom(MergeMention(out, rules[i].Mention), rules, i + 1, msg)
    ELSE MergeRulesFrom(out, rules, i + 1, msg)

\* the loop left at the first rule that matches
RECURSIVE MergeFirstRuleFrom(_, _, _, _)
MergeFirstRuleFrom(out, rules, i, msg) ==
    IF i > Len(rules) THEN out
    ELSE IF WhenMatches(rules[i].When, msg) THEN MergeMention(out, rules[i].Mention)
    ELSE MergeFirstRuleFrom(out, rules, i + 1, msg)

\* func (c Channel) EffectiveMention(msg) config.MentionConfig
EffectiveMentionFirstRuleOnly(c, msg) ==
    normalizeMention(MergeFirstRuleFrom(c.Mention, c.MentionRules, 1, msg))
EffectiveMention(c, msg) ==
    normalizeMention(MergeRulesFrom(c.Mention, c.MentionRules, 1, msg))

NoMention == [AtAll |-> FALSE, AtMobiles |-> << >>, AtUserIds |-> << >>]

BaseMentionPool ==
    { NoMention,
      [NoMention EXCEPT !.AtUserIds = << s_at_u1 >>],
      [NoMention EXCEPT !.AtMobiles = << s_m1 >>],
      [NoMention EXCEPT !.AtAll = TRUE] }

RuleMentionPool ==
    { NoMention,
      [NoMention EXCEPT !.AtAll = TRUE],
      [NoMention EXCEPT !.AtMobiles = << s_at_m1 >>],
      [NoMention EXCEPT !.AtUserIds = << s_u2pad >>],
      [NoMention EXCEPT !.AtUserIds = << s_u1 >>, !.AtMobiles = << s_m1, s_m1 >>] }

MentionRulePool ==
    { [When |-> [Receiver |-> rc, Status |-> << >>, Labels |-> NoLabels], Mention |-> m] :
        rc \in { << >>, << s_ops >> }, m \in RuleMentionPool }

MentionMessages ==
    { [Receiver |-> rc, Status |-> s_firing, Labels |-> NoLabels] : rc \in { s_ops, s_other } }

\* a compiled channel and a message
InitEffective ==
    /\ AtRest
    /\ \E base \in BaseMentionPool, rules \in SeqsUpTo(MentionRulePool, MaxMentionRules),
          msg \in MentionMessages :
         pure = [ op |-> "effective", done |-> FALSE, msg |-> msg,
                  channel |-> [Mention |-> base, MentionRules |-> rules],
                  before |-> [Mention |-> base, MentionRules |-> rules],
                  result |-> NoMention ]

\* mention := channel.EffectiveMention(msg): the receiver is a copy
ApplyEffectiveMention ==
    /\ pure.op = "effective" /\ ~pure.done
    /\ pure' = [pure EXCEPT !.done = TRUE, !.result = EffectiveMention(pure.channel, pure.msg)]
    /\ UNCHANGED sysVars

NextEffective == ApplyEffectiveMention

SpecEffective == InitEffective /\ [][NextEffective]_vars

\* the rules of a channel whose predicate matches msg, in declared order
MatchingRules(rules, msg) == SelectSeq(rules, LAMBDA r : WhenMatches(r.When, msg))

\* left fold of the merge over a list of rules
RECURSIVE FoldMerge(_, _)
FoldMerge(acc, rules) ==
    IF rules = << >> THEN acc
    ELSE FoldMerge(MergeMention(acc, Head(rules).Mention), Tail(rules))

\* C24: EffectiveMention(msg) is the normalization of the left fold of the
\* merge over the rules that match msg, in declared order, from the base
\* mention: rules that do not match contribute nothing, all matching rules
\* contribute, with no matching rule the result is the normalized base
\* mention, and the channel's base mention and rules are what they were.
C24_EffectiveMentionIsFold ==
    (pure.op = "effective" /\ pure.done) =>
        LET matching == MatchingRules(pure.before.MentionRules, pure.msg)
        IN  /\ pure.result = normalizeMention(FoldMerge(pure.before.Mention, matching))
            /\ matching = << >> => pure.result = normalizeMention(pure.before.Mention)
            /\ pure.channel = pure.before

\* two rules match and give different fields, next to a base that gives none
C24_Witness ==
    /\ pure.op = "effective" /\ pure.done
    /\ Len(MatchingRules(pure.before.MentionRules, pure.msg)) = 2
    /\ pure.before.Mention = NoMention
    /\ Len(pure.before.MentionRules[1].Mention.AtMobiles) > 0
    /\ Len(pure.before.MentionRules[1].Mention.AtUserIds) = 0
    /\ Len(pure.before.MentionRules[2].Mention.AtUserIds) > 0
    /\ Len(pure.before.MentionRules[2].Mention.AtMobiles) = 0
    /\ Len(pure.result.AtMobiles) > 0
    /\ Len(pure.result.AtUserIds) > 0

(***************************************************************************)
(* handleAlert: the loop over the selected channels and their robots.      *)
(* Every Render and every Send leaves an entry in alert.log; execOK is the *)
(* outcome of tmpl.Execute, sent the outcome of DingTalk.Send.             *)
(***************************************************************************)
MaxEventsDeliver == 3  \* external events in SpecDeliver

DeliverDocs == {2, 10}

LogEntry(kind, i, robot, ok) == [kind |-> kind, i |-> i, robot |-> robot, ok |-> ok]

\* the robot the inner loop goes to after a Send: the next one, whatever
\* the Send returned
NextRobotStopOnFailure(j, n, sent) == IF sent THEN j + 1 ELSE n + 1
NextRobot(j, n, sent) == j + 1

\* rt := opts.State.Load(); checkToken; the body; router.FirstMatch and
\* the fallback to "default"
D_Request(lim, token, receiver) ==
    /\ events < lim
    /\ alert.pc \in {"idle", "d_answered"}
    /\ StoreLoadReady(mu)
    /\ events' = events + 1
    /\ alert' =
         IF ~checkToken(token, store.Config.Token)
         THEN [ pc |-> "d_answered", rt |-> store, receiver |-> receiver,
                channelNames |-> << >>, i |-> 0, j |-> 0, sendErrs |-> 0,
                log |-> << >>, code |-> StatusUnauthorized ]
         ELSE [ pc |-> "d_channel", rt |-> store, receiver |-> receiver,
                channelNames |-> NotifiedChannels(FirstMatch(store.Routes, receiver)),
                i |-> 1, j |-> 0, sendErrs |-> 0, log |-> << >>, code |-> 0 ]
    /\ UNCHANGED << otherVars, fsVars, now, store, mu, mgrVars, enabled, rl,
                    pollerVars, status, admin >>

\* one round of the outer loop up to the inner loop: the channel lookup and
\* rt.Renderer.Render(channel.Template, msg)
D_Channel(execOK) ==
    /\ alert.pc = "d_channel"
    /\ alert.i <= Len(alert.channelNames)
    /\ LET rt == alert.rt
           channelName == alert.channelNames[alert.i]
       IN  IF channelName \notin DOMAIN rt.Channels
           THEN alert' = [alert EXCEPT
                    !.sendErrs = @ + 1,
                    !.log = Append(@, LogEntry("lookup", alert.i, s_empty, FALSE)),
                    !.i = @ + 1]
           ELSE IF ~(RenderOK(rt, rt.Channels[channelName].Template) /\ execOK)
           THEN alert' = [alert EXCEPT
                    !.sendErrs = @ + 1,
                    !.log = Append(@, LogEntry("render", alert.i, s_empty, FALSE)),
                    !.i = @ + 1]
           ELSE IF Len(rt.Channels[channelName].Robots) = 0
           THEN alert' = [alert EXCEPT
                    !.log = Append(@, LogEntry("render", alert.i, s_empty, TRUE)),
                    !.i = @ + 1]
           ELSE alert' = [alert EXCEPT
                    !.log = Append(@, LogEntry("render", alert.i, s_empty, TRUE)),
                    !.pc = "d_robot",
                    !.j = 1]
    /\ UNCHANGED << otherVars, fsVars, events, now, store, mu, mgrVars, enabled,
                    rl, pollerVars, status, admin >>

\* one round of the inner loop: the message for the robot's msg_type and
\* rt.DingTalk.Send
D_Robot(sent) ==
    /\ alert.pc = "d_robot"
    /\ LET rt == alert.rt
           robots == rt.Channels[alert.channelNames[alert.i]].Robots
           robot == robots[alert.j]
           msgType == TrimSpace(robot.MsgType)
           supported == msgType \in {s_markdown, s_text}
           ok == supported /\ sent
           j2 == IF supported THEN NextRobot(alert.j, Len(robots), sent) ELSE alert.j + 1
       IN  alert' = [alert EXCEPT
                !.sendErrs = IF ok THEN @ ELSE @ + 1,
                !.log = Append(@, LogEntry(IF supported THEN "send" ELSE "msgtype",
                                           alert.i, robot.Name, ok)),
                !.j = IF j2 > Len(robots) THEN 0 ELSE j2,
                !.i = IF j2 > Len(robots) THEN @ + 1 ELSE @,
                !.pc = IF j2 > Len(robots) THEN "d_channel" ELSE "d_robot"]
    /\ UNCHANGED << otherVars, fsVars, events, now, store, mu, mgrVars, enabled,
                    rl, pollerVars, status, admin >>

\* if len(sendErrs) > 0 { 500 "send failed" } else { 200 "ok" }
D_Respond ==
    /\ alert.pc = "d_channel"
    /\ alert.i > Len(alert.channelNames)
    /\ alert' = [alert EXCEPT !.pc = "d_answered",
                              !.code = IF alert.sendErrs > 0
                                       THEN StatusInternalServerError
                                       ELSE StatusOK]
    /\ UNCHANGED << otherVars, fsVars, events, now, store, mu, mgrVars, enabled,
                    rl, pollerVars, status, admin >>

\* file writes, direct reloads and alert requests with the outcomes of
\* their renders and sends
NextDeliver ==
    \/ \E d \in DeliverDocs : WriteConfig(MaxEventsDeliver, d)
    \/ M_Call(MaxEventsDeliver, TRUE)
    \/ \E p \in Reloaders : Reload(p)
    \/ \E token \in ReqTokens, receiver \in Receivers :
            D_Request(MaxEventsDeliver, token, receiver)
    \/ \E execOK \in BOOLEAN : D_Channel(execOK)
    \/ \E sent \in BOOLEAN : D_Robot(sent)
    \/ D_Respond

SpecDeliver == Init /\ [][NextDeliver]_vars

\* the robots of the channels names[i..], in order, as << i, robot name >>
RECURSIVE AllTargetsFrom(_, _, _)
AllTargetsFrom(rt, names, i) ==
    IF i > Len(names) THEN << >>
    ELSE LET robots == IF names[i] \in DOMAIN rt.Channels
                       THEN rt.Channels[names[i]].Robots ELSE << >>
         IN  [k \in 1..Len(robots) |-> << i, robots[k].Name >>]
                \o AllTargetsFrom(rt, names, i + 1)

\* the same for the channels whose content was rendered
RECURSIVE RenderedTargetsFrom(_, _, _, _)
RenderedTargetsFrom(rt, names, i, log) ==
    IF i > Len(names) THEN << >>
    ELSE LET rendered == \E k \in 1..Len(log) :
                            log[k].kind = "render" /\ log[k].i = i /\ log[k].ok
             robots == IF rendered THEN rt.Channels[names[i]].Robots ELSE << >>
         IN  [k \in 1..Len(robots) |-> << i, robots[k].Name >>]
                \o RenderedTargetsFrom(rt, names, i + 1, log)

\* the calls of DingTalk.Send of a request, in order
SendsOf(log) ==
    LET sends == SelectSeq(log, LAMBDA e : e.kind = "send")
    IN  [k \in 1..Len(sends) |-> << sends[k].i, sends[k].robot >>]

\* the channels a request looked up and rendered, in order
ChannelsOf(log) ==
    LET rounds == SelectSeq(log, LAMBDA e : e.kind \in {"lookup", "render"})
    IN  [k \in 1..Len(rounds) |-> rounds[k].i]

Delivered == alert.pc = "d_answered" /\ alert.code # StatusUnauthorized

\* 200 if and only if every attempt succeeded, otherwise 500
CodeTellsOutcome ==
    Delivered =>
        /\ alert.code \in {StatusOK, StatusInternalServerError}
        /\ alert.code = StatusOK <=> \A k \in 1..Len(alert.log) : alert.log[k].ok

\* C25 as stated: an answered alert request has called Send for every robot
\* of every selected channel, in order, whatever failed before, and the
\* response is 200 if and only if every attempt succeeded, otherwise 500.
C25_EveryRobotAttempted ==
    /\ Delivered => SendsOf(alert.log) = AllTargetsFrom(alert.rt, alert.channelNames, 1)
    /\ CodeTellsOutcome

\* C25: an answered alert request has gone through every selected channel
\* in order and has called Send for every robot, in order, of every channel
\* whose content was rendered, whatever failed before; a channel whose
\* render failed gets no Send; the response is 200 if and only if every
\* attempt succeeded, otherwise 500.
C25_EveryRenderedChannelAttempted ==
    /\ Delivered =>
            /\ ChannelsOf(alert.log) = [k \in 1..Len(alert.channelNames) |-> k]
            /\ SendsOf(alert.log)
                    = RenderedTargetsFrom(alert.rt, alert.channelNames, 1, alert.log)
    /\ CodeTellsOutcome

\* the first Send of a request failed, the second robot of that channel and
\* the robot of the second channel were sent to all the same, answer 500
C25_Witness ==
    /\ Delivered
    /\ alert.code = StatusInternalServerError
    /\ Len(alert.channelNames) = 2
    /\ Len(SendsOf(alert.log)) = 3
    /\ \E k \in 1..Len(alert.log) :
            /\ alert.log[k].kind = "send" /\ ~alert.log[k].ok
            /\ \A h \in 1..(k - 1) : alert.log[h].kind # "send"
            /\ \A h \in (k + 1)..Len(alert.log) : alert.log[h].ok

(***************************************************************************)
(* The poller left running: the ticker fires for ever, the config file is  *)
(* written a bounded number of times, and the goroutine of Manager.Start   *)
(* is scheduled fairly.                                                    *)
(***************************************************************************)
MaxEventsLive == 3  \* writes of the config file in SpecLive

LiveDocs == {1, 2, 3}

\* the ticker puts a tick into its channel of capacity one, at every interval
TickerFires ==
    /\ pollerPc \notin {"off", "stopped"}
    /\ ~tickerStopped
    /\ ~tickPending
    /\ tickPending' = TRUE
    /\ UNCHANGED << otherVars, fsVars, events, now, store, mu, mgrVars, enabled, rl, pollerPc,
                    pollerFP, ctxDone, tickerStopped, reqVars >>

\* the steps of the goroutine of Manager.Start between two waits
PollerStep ==
    \/ P_SelectTick
    \/ P_RicFingerprint
    \/ P_RicCompare
    \/ Reload("poller")

NextLive ==
    \/ \E d \in LiveDocs : WriteConfig(MaxEventsLive, d)
    \/ TickerFires
    \/ PollerStep

\* the goroutine is not suspended for ever in runtime.LoadFromFile: R_Load
\* is enabled whenever the call is there and is the only step that leaves
\* it, so this is weak fairness of R_Load("poller")
LoadReturns == []<>(rl["poller"].pc # "load")

\* the ticker keeps firing and the goroutine keeps running: every
\* statement it has reached is executed
SpecLive ==
    /\ Init
    /\ [][NextLive]_vars
    /\ WF_vars(TickerFires)
    /\ WF_vars(P_SelectTick)
    /\ WF_vars(P_RicFingerprint)
    /\ WF_vars(P_RicCompare)
    /\ WF_vars(R_Enter("poller"))
    /\ LoadReturns
    /\ WF_vars(R_NextFP("poller"))
    /\ WF_vars(R_Store("poller"))
    /\ WF_vars(R_Record("poller"))
    /\ WF_vars(R_Unlock("poller"))

\* the files hold a configuration that loads and builds
FilesValid == LoadFromFile(cfgFile, tplDir, 0).err = ""

\* the served snapshot is the one built from what the files hold
ServesFiles == store = LoadFromFile(cfgFile, tplDir, store.LoadedAt).rt

\* C26: with the poller running, once the writes have stopped and left a
\* valid configuration, the served snapshot eventually is, and stays, the
\* one built from the final content of the files; so a write that lands
\* between LoadFromFile and the fingerprint of a Reload is not taken as
\* loaded.
C26_EventuallyServesFinalFiles ==
    <>[](enabled /\ FilesValid => ServesFiles)

\* a step in which a call of Reload fails
ReloadFails ==
    \E p \in Reloaders :
        /\ rl[p].pc \in {"lock", "load", "fp2"}
        /\ rl'[p].pc = "unlock"
        /\ rl'[p].err # ""

\* the config file is there and does not load
FileInvalid == cfgFile.exists /\ Load(cfgFile).err # ""

MaxEventsNoOp == 4  \* external events in SpecNoOp

NoOpDocs == {1, 3}

NextNoOp ==
    \/ \E d \in NoOpDocs : WriteConfig(MaxEventsNoOp, d)
    \/ ChmodDir(MaxEventsNoOp)
    \/ \E force \in BOOLEAN : M_Call(MaxEventsNoOp, force)
    \/ \E p \in Reloaders : Reload(p)

SpecNoOp == Init /\ [][NextNoOp]_vars

\* a step in which a call of Reload returns nil
ReloadReturnsNil ==
    \E p \in Reloaders : rl[p].pc = "unlock" /\ rl'[p].pc = "done" /\ rl[p].err = ""

\* C28: when a call of Reload returns nil, be it after a rebuild or after
\* the no-op of Reload(false) with an unchanged fingerprint, lastError is
\* empty, whatever earlier calls recorded.
C28_NilReloadClearsLastError ==
    [][ReloadReturnsNil => lastError' = ""]_vars

(***************************************************************************)
(* internal/admin: ServeHTTP with the credentials of the request, and the  *)
(* PUT of handleConfig and handleConfigJSON, keeping what the request      *)
(* found and what it left.                                                 *)
(***************************************************************************)
MaxEventsPut == 3  \* external events in SpecPut

StatusNotFound == 404

s_hexC == [ i \in 1..Sha256HexLen |-> "c" ]

\* hex of sha256.Sum256(append(salt, password...)): a digest of its own for
\* every salt and password
Sum256Hex(salt, password) ==
    IF salt = s_salt /\ password = s_a THEN s_hexA
    ELSE IF salt = s_salt /\ password = s_b THEN s_hexB
    ELSE s_hexC

\* a check of the username alone
checkBasicAuthUsernameOnly(r, cfg) == r.hasAuth /\ r.username = cfg.AdminUser

\* checkBasicAuth(r, rt.Config.Admin.BasicAuth)
checkBasicAuthRequest(r, cfg) ==
    IF ~r.hasAuth THEN FALSE
    ELSE IF r.username # cfg.AdminUser THEN FALSE
    ELSE IF TrimSpace(PasswordSHA256Of(cfg)) # s_empty
    THEN /\ Base64Decodes(TrimSpace(SaltOf(cfg)))
         /\ Len(TrimSpace(PasswordSHA256Of(cfg))) % 2 = 0
         /\ HexInvalidByte(TrimSpace(PasswordSHA256Of(cfg))) = ""
         /\ Sum256Hex(TrimSpace(SaltOf(cfg)), r.password) = TrimSpace(PasswordSHA256Of(cfg))
    ELSE r.password = cfg.AdminPass

\* ServeHTTP up to the switch: the status it answers, 0 when it goes on
ServeHTTPGate(r, rt) ==
    IF ~rt.Config.AdminEnabled THEN StatusNotFound
    ELSE IF ~checkBasicAuthRequest(r, rt.Config) THEN StatusUnauthorized
    ELSE 0

NoCredentials == [hasAuth |-> FALSE, username |-> s_empty, password |-> s_empty]

\* no Authorization header; the user "a" with either password; another user
Credentials ==
    { NoCredentials,
      [hasAuth |-> TRUE, username |-> s_a, password |-> s_b],
      [hasAuth |-> TRUE, username |-> s_a, password |-> s_a],
      [hasAuth |-> TRUE, username |-> s_b, password |-> s_b] }

PutIdle ==
    [pc |-> "idle", kind |-> "put", json |-> FALSE, r |-> NoCredentials, rt |-> NoRuntime,
     new |-> 1, old |-> NoFile, code |-> 0, reloads |-> 0, wrote |-> FALSE,
     pre |-> [file |-> NoFile, fp |-> NoFingerprint, served |-> NoRuntime],
     post |-> [file |-> NoFile, fp |-> NoFingerprint, served |-> NoRuntime]]

PutAtRest == admin.pc \in {"idle", "returned"}

\* writeJSON(w, code, ...); return
PutReturn(frame, code, file, fp, served) ==
    [frame EXCEPT !.pc = "returned", !.code = code,
                  !.post = [file |-> file, fp |-> fp, served |-> served]]

\* ServeHTTP: rt := h.store.Load(); 404; 401; the PUT handler of the path
Pc_Request(lim, d, json, r) ==
    /\ events < lim
    /\ PutAtRest
    /\ rl["admin"].pc \in {"idle", "done"}
    /\ StoreLoadReady(mu)
    /\ events' = events + 1
    /\ LET frame == [PutIdle EXCEPT !.json = json, !.r = r, !.rt = store, !.new = d,
                                    !.pre = [file |-> cfgFile, fp |-> lastFingerprint,
                                             served |-> store]]
           code == ServeHTTPGate(r, store)
       IN  admin' = IF code # 0
                    THEN PutReturn(frame, code, cfgFile, lastFingerprint, store)
                    ELSE [frame EXCEPT !.pc = "p_validate"]
    /\ UNCHANGED << otherVars, fsVars, now, store, mu, mgrVars, enabled, rl, pollerVars,
                    alert, status >>

\* the old bytes (handleConfigJSON: 500 when the file cannot be read or
\* parsed), config.Parse, runtime.Build: 400 on an error
Pc_Validate ==
    /\ admin.pc = "p_validate"
    /\ LET parsed == Parse(Docs[admin.new])
           built == Build(parsed.cfg, tplDir, now)
       IN  IF admin.json /\ Load(cfgFile).err # ""
           THEN admin' = PutReturn(admin, StatusInternalServerError, cfgFile,
                                   lastFingerprint, store)
           ELSE IF parsed.err # "" \/ built.err # ""
           THEN admin' = PutReturn(admin, StatusBadRequest, cfgFile, lastFingerprint, store)
           ELSE admin' = [admin EXCEPT !.pc = "p_write", !.old = cfgFile]
    /\ UNCHANGED << otherVars, fsVars, events, now, store, mu, mgrVars, enabled, rl,
                    pollerVars, alert, status >>

\* writeFileAtomic(h.configPath, newData): 500 on an error; h.reload.Reload(ctx, true)
Pc_Write(ok) ==
    /\ admin.pc = "p_write"
    /\ IF ~ok
       THEN /\ admin' = PutReturn(admin, StatusInternalServerError, cfgFile,
                                  lastFingerprint, store)
            /\ UNCHANGED << cfgFile, clock, rl >>
       ELSE /\ clock' = clock + 1
            /\ cfgFile' = [exists |-> TRUE, doc |-> admin.new, ver |-> clock']
            /\ admin' = [admin EXCEPT !.pc = "p_reload1", !.wrote = TRUE, !.reloads = 1]
            /\ rl' = [rl EXCEPT !["admin"] =
                          NewCall(rl["admin"], TRUE, store, clock, lastSuccess)]
    /\ UNCHANGED << otherVars, tplDir, events, now, store, mu, mgrVars, enabled,
                    pollerVars, alert, status >>

\* the file after _ = writeFileAtomic(h.configPath, oldData, 0o600): the old
\* bytes, which are nil when os.ReadFile failed
RestoredFile(old, clk) ==
    [exists |-> TRUE, doc |-> IF old.exists THEN old.doc ELSE EmptyDoc, ver |-> clk]

\* if err := Reload(ctx, true); err != nil { write oldData back; Reload again }; 200
Pc_AfterReload ==
    /\ admin.pc = "p_reload1"
    /\ rl["admin"].pc = "done"
    /\ IF rl["admin"].err = ""
       THEN /\ admin' = PutReturn(admin, StatusOK, cfgFile, lastFingerprint, store)
            /\ UNCHANGED << cfgFile, clock, rl >>
       ELSE /\ clock' = clock + 1
            /\ cfgFile' = RestoredFile(admin.old, clock')
            /\ admin' = [admin EXCEPT !.pc = "p_reload2", !.reloads = 2]
            /\ rl' = [rl EXCEPT !["admin"] =
                          NewCall(rl["admin"], TRUE, store, clock, lastSuccess)]
    /\ UNCHANGED << otherVars, tplDir, events, now, store, mu, mgrVars, enabled,
                    pollerVars, alert, status >>

\* _ = h.reload.Reload(ctx, true); 500 with the first error
Pc_AfterSecondReload ==
    /\ admin.pc = "p_reload2"
    /\ rl["admin"].pc = "done"
    /\ admin' = PutReturn(admin, StatusInternalServerError, cfgFile, lastFingerprint, store)
    /\ UNCHANGED << otherVars, fsVars, events, now, store, mu, mgrVars, enabled, rl,
                    pollerVars, alert, status >>

PutDocs == {3, 7}

PutConfig(lim) ==
    \/ \E d \in PutDocs, json \in BOOLEAN, r \in Credentials : Pc_Request(lim, d, json, r)
    \/ Pc_Validate
    \/ \E ok \in BOOLEAN : Pc_Write(ok)
    \/ Pc_AfterReload
    \/ Pc_AfterSecondReload

\* what happens to the files between two requests
PutEnvironment(lim) ==
    \/ WriteConfig(lim, 11)
    \/ RemoveConfig(lim)
    \/ ChmodDir(lim)

NextPut ==
    \/ PutAtRest /\ PutEnvironment(MaxEventsPut)
    \/ PutAtRest /\ M_Call(MaxEventsPut, TRUE)
    \/ PutConfig(MaxEventsPut)
    \/ \E p \in Reloaders : Reload(p)

SpecPut == Init /\ [][NextPut]_vars

\* a request that ServeHTTP has passed on to its handler
Admitted == admin.kind = "put" /\ admin.pc # "idle" /\ admin.code \notin {StatusNotFound, StatusUnauthorized}

\* the step that answers 400 changes nothing
RejectedBeforeWrite ==
    [][(admin.pc = "p_validate" /\ admin'.pc = "returned" /\ admin'.code = StatusBadRequest)
            => /\ cfgFile' = cfgFile
               /\ lastFingerprint' = lastFingerprint
               /\ store' = store
               /\ rl' = rl]_vars

\* C29: a PUT of the configuration that fails Parse or Build is answered
\* 400 with the config file, lastFingerprint and the served snapshot as the
\* request found them and no Reload called; a PUT that was written and
\* whose forced Reload failed has run a second forced Reload and leaves the
\* config file with what it held before the request, and a served snapshot
\* that is not built from the content of the request.
C29_PutConfigValidatesAndRollsBack ==
    /\ RejectedBeforeWrite
    /\ [](( admin.kind = "put" /\ admin.pc = "returned" /\ admin.code = StatusBadRequest) =>
            /\ admin.reloads = 0
            /\ ~admin.wrote
            /\ admin.post.file = admin.pre.file)
    /\ []((admin.kind = "put" /\ admin.pc = "returned" /\ admin.reloads = 2) =>
            /\ FileContent(admin.post.file) = FileContent(admin.pre.file)
            /\ (FileContent(admin.pre.file) # << "file", admin.new >>
                    => admin.post.served.Config # Parse(Docs[admin.new]).cfg))

\* the credentials of the request are those of the configuration: the user
\* name, and the password itself or the password whose salted digest is
\* configured
MatchesCredentials(r, cfg) ==
    /\ r.hasAuth
    /\ r.username = cfg.AdminUser
    /\ IF TrimSpace(PasswordSHA256Of(cfg)) # s_empty
       THEN Sum256Hex(TrimSpace(SaltOf(cfg)), r.password) = TrimSpace(PasswordSHA256Of(cfg))
       ELSE r.password = cfg.AdminPass

\* C30: a request gets to its handler, writes the config file or calls
\* Reload only if the snapshot served when it arrived has admin enabled and
\* the Basic Auth user name and password of the request match the
\* credentials of that snapshot; with admin disabled it is answered 404,
\* with wrong or missing credentials 401; the snapshot is the one served
\* when the request arrived, so a reload applies to the next request.
C30_AdminGate ==
    (admin.kind = "put" /\ admin.pc # "idle") =>
        LET allowed == /\ admin.rt.Config.AdminEnabled
                       /\ MatchesCredentials(admin.r, admin.rt.Config)
        IN  /\ admin.rt = admin.pre.served
            /\ Admitted <=> allowed
            /\ (admin.wrote \/ admin.reloads > 0) => allowed
            /\ ~admin.rt.Config.AdminEnabled
                    => (admin.pc = "returned" /\ admin.code = StatusNotFound)
            /\ (admin.rt.Config.AdminEnabled /\ ~MatchesCredentials(admin.r, admin.rt.Config))
                    => (admin.pc = "returned" /\ admin.code = StatusUnauthorized)

\* after a reload to the salted digest, the password that opened the
\* configuration served at startup is refused
C30_Witness ==
    /\ admin.kind = "put" /\ admin.pc = "returned"
    /\ admin.code = StatusUnauthorized
    /\ admin.r.hasAuth /\ admin.r.username = s_a /\ admin.r.password = s_b
    /\ PasswordSHA256Of(admin.rt.Config) = s_hexA
    /\ lastSuccess > 0

====
